---- MODULE Spec2Model ----
(***************************************************************************)
(* Network-health triage: the rule-based root-cause diagnoser              *)
(* (WorkingDiagnosticAgent.analyze_with_rules), the multi-target ping tool *)
(* that feeds it (ping_multiple_targets) and the threshold classifier      *)
(* (NetworkMonitor.analyze_metrics).                                       *)
(*                                                                         *)
(* Latencies are milliseconds, signal levels are dBm.  A Python None in a  *)
(* numeric field is the value None below; a key that is absent from a dict *)
(* is a has_* flag that is FALSE.                                          *)
(***************************************************************************)
EXTENDS Integers, Sequences, FiniteSets, TLC

VARIABLES
    gateway,            \* netifaces default gateway seen by ping_multiple_targets
    alert,              \* the alert handed to analyze_with_rules
    results,            \* the ToolResultSet handed to analyze_with_rules
    pc,                 \* position inside analyze_with_rules
    diagnosis,          \* the dict analyze_with_rules builds and returns
    router_latency,     \* local of rule 1
    internet_latency,   \* local of rule 1 (the list)
    mpc,                \* position of the monitor's check
    snapshot,           \* the metrics handed to analyze_metrics
    analysis,           \* the value analyze_metrics returned
    clock,              \* the instant the latest datetime.now() returned
    calls,              \* invocations of analyze_with_rules on this input so far
    first,              \* what the first of them returned
    program,            \* the program that drives the monitor
    last_status,        \* local of run_monitoring
    diagnosed,          \* the latest analysis was passed on to the diagnostic stage
    ticks,              \* checks made so far
    tick_log,           \* per tick of run_monitoring: its status, and whether
                        \* on_issue_callback was called
    metrics_history,    \* NetworkMonitor.metrics_history
    tpc,                \* each caller's position inside collect_metrics
    cur_metrics,        \* each caller's local metrics dict
    net,                \* what the five probes meet in this run
    callers,            \* the threads that call collect_metrics on the monitor
    limit,              \* how many calls the callers make in this run
    started,            \* calls of collect_metrics entered so far
    collected,          \* the snapshots returned so far, in order of return
    dpc,                \* position inside WorkingDiagnosticAgent.diagnose
    tool_outcome,       \* what each diagnostic tool does when it is called
    tool_results,       \* the results dict diagnose fills
    tool_log,           \* the tools called so far, in order
    trpc,               \* position inside run_traceroute
    lines,              \* traceroute's output after the header line
    line_no,            \* the line the loop of run_traceroute is at
    hops,               \* the hops list run_traceroute builds
    apc,                \* position inside check_arp_table
    arp_lines,          \* the output of arp -n after the header line
    arp_no,             \* the line the loop of check_arp_table is at
    arp_entries,        \* the entries list check_arp_table builds
    ppc,                \* position inside the ping probe
    probe_name,         \* the ping probe that is called
    reply,              \* what the ping library or the ping command answers
    ping_out,           \* the per-target result the probe returns
    api_pc,             \* position inside run_full_pipeline
    plan,               \* whether the llm exists and what each stage does in this request
    api_alert,          \* local alert of run_full_pipeline
    api_diagnosis,      \* local diagnosis of run_full_pipeline
    solution_list,      \* local solution_list of run_full_pipeline
    generated,          \* generate_solutions was called in this request
    response,           \* what run_full_pipeline returned
    spc,                \* position inside the scoring call
    scorer,             \* the scoring entry point that is called
    collaborator,       \* what the text-generation collaborator does in this call
    score_in,           \* router latency, internet latency, signal and packet loss that are scored
    score_out,          \* the score and explanation that came back
    rpc,                \* position inside DirectDiagnosticAgent.analyze_results
    tool_set,           \* the results dict handed to analyze_results
    direct              \* the diagnosis analyze_results returned

diagVars == <<gateway, alert, results, pc, diagnosis, router_latency, internet_latency>>
monVars == <<mpc, snapshot, analysis>>
repVars == <<calls, first>>
pipeVars == <<program, last_status, diagnosed, ticks, tick_log>>
collVars == <<metrics_history, tpc, cur_metrics, net, callers, limit, started, collected>>
toolVars == <<dpc, tool_outcome, tool_results, tool_log>>
traceVars == <<trpc, lines, line_no, hops>>
arpVars == <<apc, arp_lines, arp_no, arp_entries>>
pingVars == <<ppc, probe_name, reply, ping_out>>
apiVars == <<api_pc, plan, api_alert, api_diagnosis, solution_list, generated, response>>
scoreVars == <<spc, scorer, collaborator, score_in, score_out>>
directVars == <<rpc, tool_set, direct>>
otherThanDiag == <<monVars, pipeVars, collVars, toolVars, traceVars, arpVars, pingVars, apiVars, scoreVars, directVars>>
otherThanMon == <<diagVars, repVars, clock, pipeVars, collVars, toolVars, traceVars, arpVars, pingVars, apiVars, scoreVars, directVars>>
otherThanPipe == <<diagVars, repVars, clock, collVars, toolVars, traceVars, arpVars, pingVars, apiVars, scoreVars, directVars>>
otherThanColl == <<diagVars, repVars, monVars, pipeVars, toolVars, traceVars, arpVars, pingVars, apiVars, scoreVars, directVars>>
otherThanTools == <<diagVars, repVars, clock, monVars, pipeVars, collVars, traceVars, arpVars, pingVars, apiVars, scoreVars, directVars>>
otherThanTrace == <<diagVars, repVars, clock, monVars, pipeVars, collVars, toolVars, arpVars, pingVars, apiVars, scoreVars, directVars>>
otherThanArp == <<diagVars, repVars, clock, monVars, pipeVars, collVars, toolVars, traceVars, pingVars, apiVars, scoreVars, directVars>>
otherThanPing == <<diagVars, repVars, clock, monVars, pipeVars, collVars, toolVars, traceVars, arpVars, apiVars, scoreVars, directVars>>
otherThanApi == <<diagVars, repVars, monVars, pipeVars, collVars, toolVars, traceVars, arpVars, pingVars, scoreVars, directVars>>
otherThanScore == <<diagVars, repVars, clock, monVars, pipeVars, collVars, toolVars, traceVars, arpVars, pingVars, apiVars, directVars>>
otherThanDirect == <<diagVars, repVars, monVars, pipeVars, collVars, toolVars, traceVars, arpVars, pingVars, apiVars, scoreVars>>
vars == <<gateway, alert, results, pc, diagnosis, router_latency, internet_latency,
          mpc, snapshot, analysis, clock, calls, first,
          program, last_status, diagnosed, ticks, tick_log,
          metrics_history, tpc, cur_metrics, net, callers, limit, started, collected,
          dpc, tool_outcome, tool_results, tool_log,
          trpc, lines, line_no, hops,
          apc, arp_lines, arp_no, arp_entries,
          ppc, probe_name, reply, ping_out,
          api_pc, plan, api_alert, api_diagnosis, solution_list, generated, response,
          spc, scorer, collaborator, score_in, score_out,
          rpc, tool_set, direct>>

----------------------------------------------------------------------------
(* Values *)

\* Python None in a latency field (measured latencies are positive).
None == -1

\* Largest networks_found a WiFi scan reports in the model.
MaxNetworks == 21

RouterMs == {20, 30, 50, 51, 100, 101, 120, 150}
InternetMs == {40, 80, 100, 300}
SignalDbm == {-85, -70, -60, -55, -50}
DnsMs == {1000, 1500}
NetworksFound == 20..MaxNetworks
Statuses == {"degraded", "unhealthy"}

NoGateway == <<>>
Gateways == {NoGateway, <<192, 168, 1, 1>>, <<10, 0, 0, 1>>}

NameTarget(n) == [kind |-> "name", name |-> n, octets |-> <<>>]
IpTarget(o) == [kind |-> "ip", name |-> "", octets |-> o]

\* What one icmp_ping call can do: raise, find the host dead, or measure it.
\* (icmplib reports avg_rtt = 0 for a host that sent no reply.)
PingError == [kind |-> "error", avg_rtt |-> 0]
PingDead == [kind |-> "dead", avg_rtt |-> 0]
PingAlive(ms) == [kind |-> "alive", avg_rtt |-> ms]
RouterOutcomes == {PingError, PingDead} \cup {PingAlive(ms) : ms \in RouterMs}
PublicOutcomes == {PingError, PingDead} \cup {PingAlive(ms) : ms \in InternetMs}

----------------------------------------------------------------------------
(* ping_multiple_targets *)

\* The dict appended for one target.
PingEntry(target, outcome) ==
    IF outcome.kind = "error"
    THEN [target |-> target, success |-> FALSE, has_latency |-> FALSE, latency_ms |-> None]
    ELSE [target |-> target,
          success |-> (outcome.kind = "alive"),
          has_latency |-> TRUE,
          latency_ms |-> IF outcome.avg_rtt # 0 THEN outcome.avg_rtt ELSE None]

\* The entry for the 'router' target: the gateway is pinged under its address,
\* or an unsuccessful entry named 'router' is recorded when there is none.
RouterEntry(gw, outcome) ==
    IF gw # NoGateway
    THEN PingEntry(IpTarget(gw), outcome)
    ELSE [target |-> NameTarget("router"), success |-> FALSE,
          has_latency |-> FALSE, latency_ms |-> None]

\* diagnose() asks for "router,8.8.8.8,1.1.1.1".
PublicTargets == <<IpTarget(<<8, 8, 8, 8>>), IpTarget(<<1, 1, 1, 1>>)>>

ping_multiple_targets(gw, routerOutcome, publicOutcomes) ==
    [success |-> TRUE,
     results |-> <<RouterEntry(gw, routerOutcome)>> \o
                 [i \in 1..Len(publicOutcomes) |-> PingEntry(PublicTargets[i], publicOutcomes[i])]]

FailedTool == [success |-> FALSE, results |-> <<>>]

----------------------------------------------------------------------------
(* analyze_with_rules: helpers *)

\* Python truthiness of a latency (None and 0 are falsy) and of a signal level.
Truthy(x) == x # None /\ x # 0
SignalKnown(sig) == sig # 0

\* result.get('latency_ms') and result.get('latency_ms', 0)
GetLatency(entry, default) == IF entry.has_latency THEN entry.latency_ms ELSE default

ContainsRouter(target) == target.kind = "name" /\ target.name = "router"
StartsWith192168(target) ==
    target.kind = "ip" /\ Len(target.octets) >= 2
        /\ target.octets[1] = 192 /\ target.octets[2] = 168

IsRouterTarget(target) == ContainsRouter(target) \/ StartsWith192168(target)

\* The loop over ping_results: the last router-like entry sets router_latency.
RECURSIVE RouterLatencyOf(_, _, _)
RouterLatencyOf(entries, default, acc) ==
    IF entries = <<>> THEN acc
    ELSE RouterLatencyOf(Tail(entries), default,
                         IF IsRouterTarget(Head(entries).target)
                         THEN GetLatency(Head(entries), default)
                         ELSE acc)

\* ... and every other entry contributes get('latency_ms', 0) to the list.
RECURSIVE InternetLatencyOf(_)
InternetLatencyOf(entries) ==
    IF entries = <<>> THEN <<>>
    ELSE IF IsRouterTarget(Head(entries).target)
         THEN InternetLatencyOf(Tail(entries))
         ELSE <<GetLatency(Head(entries), 0)>> \o InternetLatencyOf(Tail(entries))

RECURSIVE Sum(_)
Sum(s) == IF s = <<>> THEN 0 ELSE Head(s) + Sum(Tail(s))

\* sum() over a list holding None raises TypeError.
SumRaises(s) == \E i \in 1..Len(s) : s[i] = None

\* avg = sum(l) / len(l) if l else 0, compared without leaving the integers.
AvgGT(l, k) == IF l = <<>> THEN 0 > k ELSE Sum(l) > k * Len(l)
AvgLT(l, k) == IF l = <<>> THEN 0 < k ELSE Sum(l) < k * Len(l)

\* f'{avg:.0f}': round half to even.
Fmt0(l) ==
    IF l = <<>> THEN 0
    ELSE LET q == Sum(l) \div Len(l)
             r == Sum(l) % Len(l)
         IN  IF 2 * r < Len(l) THEN q
             ELSE IF 2 * r > Len(l) THEN q + 1
             ELSE IF q % 2 = 0 THEN q ELSE q + 1

Ev(kind, value, label) == [kind |-> kind, value |-> value, label |-> label]
Cause(text, args) == [text |-> text, args |-> args]
NoCause == Cause("None", <<>>)

WifiRecs == <<"Move closer to WiFi router", "Switch to 5GHz band if available",
              "Check for WiFi interference">>
RouterLoadRecs == <<"Check router CPU/memory usage", "Restart router",
                    "Reduce number of connected devices">>
IspRecs == <<"Contact ISP about latency issues",
             "Check if other users on network experiencing same issue",
             "Try wired connection to rule out WiFi">>
ModerateRecs == <<"Improve WiFi signal strength", "Switch to 5GHz band", "Move closer to router">>
CongestionRec == "Switch to less congested WiFi channel"
DnsRec == "Change DNS servers to 8.8.8.8 or 1.1.1.1"
PriorityRec == "PRIORITY: Improve WiFi signal (move closer to router)"
NoActionRec == "No action needed - network is healthy"
MonitorRec == "Monitor network performance over time"

\* metrics.get('signal', {}).get('signal_dbm', 0) and the dns analogue
signal_dbm == IF alert.has_signal THEN alert.signal_dbm ELSE 0
dns_latency == IF alert.has_dns THEN alert.dns_latency_ms ELSE 0

----------------------------------------------------------------------------
(* analyze_with_rules: the rules *)

NewDiagnosis(status, now) ==
    [timestamp |-> now, alert_status |-> status, primary_issue |-> "None", root_cause |-> NoCause,
     confidence |-> "medium", evidence |-> <<>>, recommendations |-> <<>>]

\* HighLocal with the weak-signal test off by one (<= -70 instead of < -70).
HighLocal_WeakAtMinus70(d, rl, sig) ==
    [d EXCEPT !.primary_issue = "high_local_network_latency",
              !.root_cause = Cause("Router latency is high", <<rl>>),
              !.confidence = "high",
              !.evidence = @ \o <<Ev("Router latency", rl, "threshold: 50ms")>>
                             \o (IF SignalKnown(sig) /\ sig <= -70
                                 THEN <<Ev("WiFi signal is weak", sig, "")>> ELSE <<>>),
              !.recommendations = @ \o (IF SignalKnown(sig) /\ sig <= -70
                                        THEN WifiRecs ELSE RouterLoadRecs)]

\* RULE: high router latency = local network issue
HighLocal(d, rl, sig) ==
    [d EXCEPT !.primary_issue = "high_local_network_latency",
              !.root_cause = Cause("Router latency is high", <<rl>>),
              !.confidence = "high",
              !.evidence = @ \o <<Ev("Router latency", rl, "threshold: 50ms")>>
                             \o (IF SignalKnown(sig) /\ sig < -70
                                 THEN <<Ev("WiFi signal is weak", sig, "")>> ELSE <<>>),
              !.recommendations = @ \o (IF SignalKnown(sig) /\ sig < -70
                                        THEN WifiRecs ELSE RouterLoadRecs)]

\* RULE: router fast but internet slow = ISP/routing issue
HighExternal(d, rl, il) ==
    [d EXCEPT !.primary_issue = "high_external_latency",
              !.root_cause = Cause("Router is responsive but external hosts are slow",
                                   <<rl, Fmt0(il)>>),
              !.confidence = "high",
              !.evidence = @ \o <<Ev("Router", rl, "fast"), Ev("Internet", Fmt0(il), "slow")>>,
              !.recommendations = @ \o IspRecs]

\* RULE: everything moderately slow = WiFi quality
Moderate(d, rl, sig, wifi) ==
    LET congested == wifi.success /\ wifi.networks_found > 20
    IN  [d EXCEPT !.primary_issue = "moderate_network_degradation",
                  !.root_cause = Cause("Moderate latency across local and external hosts", <<>>),
                  !.confidence = "medium",
                  !.evidence = @ \o <<Ev("Router", rl, "moderate"), Ev("Signal", sig, "")>>
                                 \o (IF congested
                                     THEN <<Ev("WiFi networks detected", wifi.networks_found,
                                               "congested environment")>>
                                     ELSE <<>>),
                  !.recommendations = @ \o (IF congested THEN <<CongestionRec>> ELSE <<>>)
                                        \o ModerateRecs]

\* LatencyBranch with the moderate test moved to the front of the chain.
LatencyBranch_ModerateFirst(d, rl, il, sig, wifi) ==
    IF Truthy(rl) /\ 50 < rl /\ rl < 150 THEN Moderate(d, rl, sig, wifi)
    ELSE IF Truthy(rl) /\ rl > 100 THEN HighLocal(d, rl, sig)
    ELSE IF Truthy(rl) /\ rl < 50 /\ AvgGT(il, 200) THEN HighExternal(d, rl, il)
    ELSE d

\* The if / elif / elif chain of rule 1.
LatencyBranch(d, rl, il, sig, wifi) ==
    IF Truthy(rl) /\ rl > 100 THEN HighLocal(d, rl, sig)
    ELSE IF Truthy(rl) /\ rl < 50 /\ AvgGT(il, 200) THEN HighExternal(d, rl, il)
    ELSE IF Truthy(rl) /\ 50 < rl /\ rl < 150 THEN Moderate(d, rl, sig, wifi)
    ELSE d

\* DnsRule that puts its evidence in front of what the latency branch recorded.
DnsRule_EvidenceInFront(d, dns) ==
    IF dns > 1000
    THEN [d EXCEPT !.evidence = <<Ev("DNS resolution is slow", dns, "")>> \o @,
                   !.recommendations = Append(@, DnsRec)]
    ELSE d

\* DnsRule that records the evidence but forgets the recommendation.
DnsRule_EvidenceOnly(d, dns) ==
    IF dns > 1000
    THEN [d EXCEPT !.evidence = Append(@, Ev("DNS resolution is slow", dns, ""))]
    ELSE d

\* Rule 2: DNS performance
DnsRule(d, dns) ==
    IF dns > 1000
    THEN [d EXCEPT !.evidence = Append(@, Ev("DNS resolution is slow", dns, "")),
                   !.recommendations = Append(@, DnsRec)]
    ELSE d

Quality(sig) ==
    IF sig >= -50 THEN "excellent"
    ELSE IF sig >= -60 THEN "good"
    ELSE IF sig >= -70 THEN "fair"
    ELSE "weak"

\* SignalRule that appends the PRIORITY entry instead of inserting it in front.
SignalRule_AppendsPriority(d, sig) ==
    IF SignalKnown(sig)
    THEN [d EXCEPT !.evidence = Append(@, Ev("WiFi signal", sig, Quality(sig))),
                   !.recommendations = IF sig < -70 THEN Append(@, PriorityRec) ELSE @]
    ELSE d

\* Rule 3: WiFi signal if available
SignalRule(d, sig) ==
    IF SignalKnown(sig)
    THEN [d EXCEPT !.evidence = Append(@, Ev("WiFi signal", sig, Quality(sig))),
                   !.recommendations = IF sig < -70 THEN <<PriorityRec>> \o @ ELSE @]
    ELSE d

\* Fallback whose healthy branch appends its entry instead of replacing the list.
Fallback_AppendsNoAction(d, rl, il, sig) ==
    IF Truthy(rl) /\ rl < 50 /\ AvgLT(il, 100) /\ sig > -70
    THEN [d EXCEPT !.primary_issue = "network_healthy",
                   !.root_cause = Cause("Network is performing well", <<rl, Fmt0(il), sig>>),
                   !.confidence = "high",
                   !.recommendations = Append(@, NoActionRec)]
    ELSE [d EXCEPT !.primary_issue = "network_status_unclear",
                   !.root_cause = Cause("Network metrics are borderline or insufficient data", <<>>),
                   !.confidence = "low",
                   !.recommendations = Append(@, MonitorRec)]

\* Fallback whose unclear branch leaves the confidence as it was.
Fallback_KeepsConfidence(d, rl, il, sig) ==
    IF Truthy(rl) /\ rl < 50 /\ AvgLT(il, 100) /\ sig > -70
    THEN [d EXCEPT !.primary_issue = "network_healthy",
                   !.root_cause = Cause("Network is performing well", <<rl, Fmt0(il), sig>>),
                   !.confidence = "high",
                   !.recommendations = <<NoActionRec>>]
    ELSE [d EXCEPT !.primary_issue = "network_status_unclear",
                   !.root_cause = Cause("Network metrics are borderline or insufficient data", <<>>),
                   !.recommendations = Append(@, MonitorRec)]

\* The healthy / unclear decision taken when no rule set a root cause.
Fallback(d, rl, il, sig) ==
    IF Truthy(rl) /\ rl < 50 /\ AvgLT(il, 100) /\ sig > -70
    THEN [d EXCEPT !.primary_issue = "network_healthy",
                   !.root_cause = Cause("Network is performing well", <<rl, Fmt0(il), sig>>),
                   !.confidence = "high",
                   !.recommendations = <<NoActionRec>>]
    ELSE [d EXCEPT !.primary_issue = "network_status_unclear",
                   !.root_cause = Cause("Network metrics are borderline or insufficient data", <<>>),
                   !.confidence = "low",
                   !.recommendations = Append(@, MonitorRec)]

----------------------------------------------------------------------------
(* analyze_with_rules: the steps *)

\* Rule 1 (lines 181-255): derive the latencies, then take the first matching branch.
CheckLatency ==
    /\ pc = "rule1"
    /\ IF results.ping_multiple.success
       THEN LET ping_results == results.ping_multiple.results
                rl == RouterLatencyOf(ping_results, None, None)
                il == InternetLatencyOf(ping_results)
            IN  /\ router_latency' = rl
                /\ internet_latency' = il
                /\ IF SumRaises(il)
                   THEN pc' = "raised" /\ UNCHANGED diagnosis
                   ELSE /\ diagnosis' = LatencyBranch(diagnosis, rl, il, signal_dbm,
                                                      results.wifi_scan)
                        /\ pc' = "rule2"
       ELSE pc' = "rule2" /\ UNCHANGED <<diagnosis, router_latency, internet_latency>>
    /\ UNCHANGED <<gateway, alert, results>>
    /\ UNCHANGED <<clock, repVars>>
    /\ UNCHANGED otherThanDiag

CheckDns ==
    /\ pc = "rule2"
    /\ diagnosis' = DnsRule(diagnosis, dns_latency)
    /\ pc' = "rule3"
    /\ UNCHANGED <<gateway, alert, results, router_latency, internet_latency>>
    /\ UNCHANGED <<clock, repVars>>
    /\ UNCHANGED otherThanDiag

CheckSignal ==
    /\ pc = "rule3"
    /\ diagnosis' = SignalRule(diagnosis, signal_dbm)
    /\ pc' = "fallback"
    /\ UNCHANGED <<gateway, alert, results, router_latency, internet_latency>>
    /\ UNCHANGED <<clock, repVars>>
    /\ UNCHANGED otherThanDiag

\* Lines 278-304: recompute the latencies (router with default 0) and decide.
CheckHealthy ==
    /\ pc = "fallback"
    /\ IF diagnosis.root_cause = NoCause
       THEN LET ok == results.ping_multiple.success
                ping_results == results.ping_multiple.results
                rl == IF ok THEN RouterLatencyOf(ping_results, 0, None) ELSE None
                il == IF ok THEN InternetLatencyOf(ping_results) ELSE <<>>
            IN  IF SumRaises(il)
                THEN pc' = "raised" /\ UNCHANGED diagnosis
                ELSE /\ diagnosis' = Fallback(diagnosis, rl, il, signal_dbm)
                     /\ pc' = "done"
       ELSE pc' = "done" /\ UNCHANGED diagnosis
    /\ UNCHANGED <<gateway, alert, results, router_latency, internet_latency>>
    /\ UNCHANGED <<clock, repVars>>
    /\ UNCHANGED otherThanDiag

----------------------------------------------------------------------------
(* Inputs *)

Alerts ==
    { [status |-> st, has_signal |-> hs, signal_dbm |-> sg, has_dns |-> hd, dns_latency_ms |-> dl] :
        st \in Statuses, hs \in BOOLEAN, sg \in SignalDbm \cup {0},
        hd \in BOOLEAN, dl \in DnsMs \cup {0} }

\* An absent key carries no value.
AlertOk(a) == (a.has_signal <=> a.signal_dbm # 0) /\ (a.has_dns <=> a.dns_latency_ms # 0)

WifiScans == {[success |-> FALSE, networks_found |-> 0]}
                \cup {[success |-> TRUE, networks_found |-> n] : n \in NetworksFound}

NoDiagnosis == NewDiagnosis("degraded", 0)

\* The state before analyze_with_rules has been entered.
DiagIdle ==
    /\ gateway = NoGateway
    /\ alert = [status |-> "degraded", has_signal |-> FALSE, signal_dbm |-> 0,
                has_dns |-> FALSE, dns_latency_ms |-> 0]
    /\ results = [ping_multiple |-> FailedTool, traceroute |-> [success |-> FALSE],
                  wifi_scan |-> [success |-> FALSE, networks_found |-> 0],
                  dns_check |-> [success |-> FALSE], arp_table |-> [success |-> FALSE]]
    /\ pc = "idle"
    /\ clock = 0
    /\ diagnosis = NoDiagnosis
    /\ router_latency = None
    /\ internet_latency = <<>>
    /\ calls = 0
    /\ first = NoDiagnosis

\* The state before the monitor has collected anything.
NoSnapshot ==
    [ping |-> [success |-> FALSE, has_latency |-> FALSE, latency_ms |-> None,
               has_packet_loss |-> FALSE, packet_loss |-> 0],
     dns |-> [success |-> FALSE],
     signal |-> [success |-> FALSE, signal_dbm |-> 0],
     interface |-> [up |-> FALSE],
     gateway |-> [success |-> FALSE]]
NoAnalysis == [status |-> "None", issues |-> <<>>, warnings |-> <<>>]

ToolOrder == <<"ping_multiple", "traceroute", "wifi_scan", "dns_check", "arp_table">>
Tools == {ToolOrder[i] : i \in 1..Len(ToolOrder)}

\* A tool returns its success JSON, returns its failure JSON, or raises.
ToolOutcomes == {"ok", "failed", "raised"}

NoResults == [k \in {} |-> FALSE]

\* diagnose has not been called.
ToolsIdle ==
    /\ dpc = "idle"
    /\ tool_outcome = [k \in Tools |-> "ok"]
    /\ tool_results = NoResults
    /\ tool_log = <<>>

\* The fields of a per-target ping result that the three probes share.
\* packet_loss is <<numerator, denominator>>: icmplib reports a fraction, the
\* ping command a percentage, and neither is converted by the probes.
NoPing == [success |-> FALSE, has_latency |-> FALSE, latency_ms |-> None,
           has_packet_loss |-> FALSE, packet_loss |-> <<0, 1>>]

\* What a ping meets.  kind "host" is icmplib's Host with its is_alive,
\* avg_rtt (thousandths of a millisecond; 0 when nothing came back) and
\* packet_loss (a fraction); kind "exited" is the ping command's exit with its
\* return code and the statistics it printed: the digit groups of
\* "<loss>% packet loss" (<<33, 3333>> is "33.3333"), the names left of " = "
\* on the round-trip line and the numbers right of it; kind "timeout" is
\* subprocess.TimeoutExpired and kind "raised" any other exception.
PingReply(kind, is_alive, avg_rtt, loss, returncode, loss_text, label, times) ==
    [kind |-> kind, is_alive |-> is_alive, avg_rtt |-> avg_rtt, packet_loss |-> loss,
     returncode |-> returncode, loss_text |-> loss_text, label |-> label,
     times |-> times]

IcmpHost(is_alive, avg_rtt, loss) ==
    PingReply("host", is_alive, avg_rtt, loss, 0, <<>>, <<>>, <<>>)
PingExit(returncode, loss_text, label, times) ==
    PingReply("exited", FALSE, 0, <<0, 1>>, returncode, loss_text, label, times)
PingTimeout == PingReply("timeout", FALSE, 0, <<0, 1>>, 0, <<>>, <<>>, <<>>)
PingRaised == PingReply("raised", FALSE, 0, <<0, 1>>, 0, <<>>, <<>>, <<>>)

NoReply == PingRaised

\* No ping probe has been called.
PingIdle ==
    /\ ppc = "idle"
    /\ probe_name = "none"
    /\ reply = NoReply
    /\ ping_out = NoPing

\* The metrics of the alert the API builds when there is no monitor or
\* check_once raised (flask_api.py lines 145-151 and 164-170).
OfflineMetrics ==
    [ping |-> [success |-> FALSE, has_latency |-> TRUE, latency_ms |-> 0,
               has_packet_loss |-> TRUE, packet_loss |-> 100],
     dns |-> [success |-> FALSE],
     signal |-> [success |-> FALSE, has_signal_dbm |-> TRUE, signal_dbm |-> 0],
     interface |-> [up |-> FALSE],
     gateway |-> [success |-> FALSE]]

NoApiAlert == [timestamp |-> 0, status |-> "None", metrics |-> OfflineMetrics]

\* The keys of a diagnosis that run_full_pipeline reads.
ApiDiagnosis(now, issue, recs, has_score, score) ==
    [timestamp |-> now, primary_issue |-> issue, recommendations |-> recs,
     has_score |-> has_score, network_health_score |-> score]

NoApiDiagnosis == ApiDiagnosis(0, "None", <<>>, FALSE, None)

NoResponse == [http |-> 0]

\* No request to /api/diagnose is being served.
ApiIdle ==
    /\ api_pc = "idle"
    /\ plan = [llm |-> FALSE, monitor |-> "missing", diagnostic |-> "ok", solution |-> "ok"]
    /\ api_alert = NoApiAlert
    /\ api_diagnosis = NoApiDiagnosis
    /\ solution_list = <<>>
    /\ generated = FALSE
    /\ response = NoResponse

\* No score and no explanation: the diagnosis has neither key.
NoScore == [has_score |-> FALSE, score |-> None, rule_based |-> FALSE, explanation |-> <<>>]

ScoreInput(router, internet, signal, loss) ==
    [router_latency |-> router, internet_latency |-> internet,
     signal_dbm |-> signal, packet_loss |-> loss]

\* What the collaborator does: there is none (llm=None), crew.kickoff raises,
\* or it returns a text in which number is the score the parser finds
\* (None when it finds none).
Collaborator(kind, number) == [kind |-> kind, number |-> number]

\* Nothing is being scored.
ScoreIdle ==
    /\ spc = "idle"
    /\ scorer = "none"
    /\ collaborator = Collaborator("absent", None)
    /\ score_in = ScoreInput(0, 0, 0, 0)
    /\ score_out = NoScore

\* The parts of the three tool results that analyze_results reads: the ARP
\* device count, the success of the router and of the public ping entries,
\* and the latency_ms of each traceroute hop.
ToolSet(devices, router_ok, internet_ok, latencies) ==
    [total_devices |-> devices, router_ok |-> router_ok,
     internet_ok |-> internet_ok, hops |-> latencies]

NoDirect == [root_cause |-> "None", confidence |-> "None", isp_delays_detected |-> FALSE,
             traceroute_hops |-> 0]

\* analyze_results has not been called.
DirectIdle ==
    /\ rpc = "idle"
    /\ tool_set = ToolSet(0, FALSE, FALSE, <<>>)
    /\ direct = NoDirect

\* check_arp_table has not been called.
ArpIdle ==
    /\ apc = "idle"
    /\ arp_lines = <<>>
    /\ arp_no = 1
    /\ arp_entries = <<>>

\* run_traceroute has not been called.
TraceIdle ==
    /\ trpc = "idle"
    /\ lines = <<>>
    /\ line_no = 1
    /\ hops = <<>>

Threads == {1, 2}

PingOutcomes == {"ok", "timeout", "error"}
DnsOutcomes == {"ok", "error", "no_resolver"}
ProbeOutcomes == {"ok", "error"}
Nets == [ping : PingOutcomes, dns : DnsOutcomes, signal : ProbeOutcomes,
         interface : ProbeOutcomes, gateway : ProbeOutcomes]

\* What a probe's JSON says: a failure caught by the probe's except clause
\* carries an 'error' key.
ProbeResult(outcome) == [success |-> outcome = "ok", has_error |-> outcome = "error"]
InterfaceResult(outcome) == [up |-> outcome = "ok", has_error |-> outcome = "error"]

NewMetrics(now, n) ==
    [timestamp |-> now, ping |-> ProbeResult(n.ping), dns |-> ProbeResult(n.dns),
     signal |-> ProbeResult(n.signal), interface |-> InterfaceResult(n.interface),
     gateway |-> ProbeResult(n.gateway)]

NoMetrics == NewMetrics(0, [ping |-> "ok", dns |-> "ok", signal |-> "ok",
                            interface |-> "ok", gateway |-> "ok"])

\* A monitor as __init__ leaves it, with nobody calling it.
CollIdle ==
    /\ metrics_history = <<>>
    /\ tpc = [t \in Threads |-> "idle"]
    /\ cur_metrics = [t \in Threads |-> NoMetrics]
    /\ net = [ping |-> "ok", dns |-> "ok", signal |-> "ok",
              interface |-> "ok", gateway |-> "ok"]
    /\ callers = {}
    /\ limit = 0
    /\ started = 0
    /\ collected = <<>>

\* No program is driving the monitor.
PipeIdle ==
    /\ program = "none"
    /\ last_status = "healthy"
    /\ diagnosed = FALSE
    /\ ticks = 0
    /\ tick_log = <<>>

MonIdle ==
    /\ mpc = "idle"
    /\ snapshot = NoSnapshot
    /\ analysis = NoAnalysis

Init ==
    /\ clock = 0
    /\ calls = 1
    /\ first = NoDiagnosis
    /\ gateway \in Gateways
    /\ alert \in {a \in Alerts : AlertOk(a)}
    /\ \E ro \in RouterOutcomes, po \in [1..Len(PublicTargets) -> PublicOutcomes],
          pingFails \in BOOLEAN, wifi \in WifiScans, others \in BOOLEAN :
            results = [ping_multiple |-> IF pingFails THEN FailedTool
                                         ELSE ping_multiple_targets(gateway, ro, po),
                       traceroute |-> [success |-> others],
                       wifi_scan |-> wifi,
                       dns_check |-> [success |-> others],
                       arp_table |-> [success |-> others]]
    /\ pc = "rule1"
    /\ diagnosis = NewDiagnosis(alert.status, clock)
    /\ router_latency = None
    /\ internet_latency = <<>>
    /\ MonIdle /\ PipeIdle /\ CollIdle /\ ToolsIdle /\ TraceIdle /\ ArpIdle /\ PingIdle /\ ApiIdle /\ ScoreIdle /\ DirectIdle

Next == CheckLatency \/ CheckDns \/ CheckSignal \/ CheckHealthy

Spec == Init /\ [][Next]_vars

\* Reinvoke with an evidence list that outlives the call.
Reinvoke_KeepsLists ==
    /\ pc = "done" /\ calls = 1
    /\ first' = diagnosis
    /\ calls' = 2
    /\ clock' = clock + 1
    /\ diagnosis' = [NewDiagnosis(alert.status, clock')
                        EXCEPT !.evidence = diagnosis.evidence]
    /\ router_latency' = None
    /\ internet_latency' = <<>>
    /\ pc' = "rule1"
    /\ UNCHANGED <<gateway, alert, results>>
    /\ UNCHANGED otherThanDiag

\* A second call with the same alert and the same diagnostic results, made
\* after the first has returned: line 166 reads the clock again and the
\* locals start afresh.
Reinvoke ==
    /\ pc = "done" /\ calls = 1
    /\ first' = diagnosis
    /\ calls' = 2
    /\ clock' = clock + 1
    /\ diagnosis' = NewDiagnosis(alert.status, clock')
    /\ router_latency' = None
    /\ internet_latency' = <<>>
    /\ pc' = "rule1"
    /\ UNCHANGED <<gateway, alert, results>>
    /\ UNCHANGED otherThanDiag

NextRepeat == Next \/ Reinvoke

SpecRepeat == Init /\ [][NextRepeat]_vars

----------------------------------------------------------------------------
(* NetworkMonitor.analyze_metrics *)

max_latency_ms == 200
max_packet_loss == 20
min_signal_dbm == -80

MonitorLatencyMs == {50, 200, 201}
PacketLoss == {0, 20, 21}
MonitorSignalDbm == {-90, -81, -80, -60}

\* What ping_test can return: an exception, a dead host, or a measurement.
PingSnapshots ==
    {[success |-> FALSE, has_latency |-> FALSE, latency_ms |-> None,
      has_packet_loss |-> FALSE, packet_loss |-> 0],
     [success |-> FALSE, has_latency |-> TRUE, latency_ms |-> None,
      has_packet_loss |-> TRUE, packet_loss |-> 100]}
    \cup {[success |-> TRUE, has_latency |-> TRUE, latency_ms |-> l,
           has_packet_loss |-> TRUE, packet_loss |-> p] :
             l \in MonitorLatencyMs, p \in PacketLoss}

SignalSnapshots ==
    {[success |-> FALSE, signal_dbm |-> 0]}
    \cup {[success |-> TRUE, signal_dbm |-> sg] : sg \in MonitorSignalDbm}

Snapshots ==
    [ping : PingSnapshots, dns : [success : BOOLEAN], signal : SignalSnapshots,
     interface : [up : BOOLEAN], gateway : [success : BOOLEAN]]

Issue(type) == [type |-> type, severity |-> "critical"]
Warning(type, value) == [type |-> type, severity |-> "warning", value |-> value]

\* The issues list in the order the checks append to it.
Issues(metrics) ==
    (IF ~metrics.ping.success THEN <<Issue("connectivity")>> ELSE <<>>)
    \o (IF ~metrics.dns.success THEN <<Issue("dns")>> ELSE <<>>)
    \o (IF ~metrics.interface.up THEN <<Issue("interface")>> ELSE <<>>)

\* The warnings list in the order the checks append to it.
Warnings(metrics) ==
    LET ping == metrics.ping
        latency == IF ping.has_latency THEN ping.latency_ms ELSE None
        packet_loss == IF ping.has_packet_loss THEN ping.packet_loss ELSE 0
        signal == metrics.signal
    IN  (IF ping.success /\ Truthy(latency) /\ latency > max_latency_ms
         THEN <<Warning("latency", latency)>> ELSE <<>>)
        \o (IF ping.success /\ packet_loss > max_packet_loss
            THEN <<Warning("packet_loss", packet_loss)>> ELSE <<>>)
        \o (IF signal.success /\ SignalKnown(signal.signal_dbm)
                /\ signal.signal_dbm < min_signal_dbm
            THEN <<Warning("signal", signal.signal_dbm)>> ELSE <<>>)

\* Status with the two tests in the wrong order.
Status_WarningsFirst(issues, warnings) ==
    IF warnings # <<>> THEN "degraded"
    ELSE IF issues # <<>> THEN "unhealthy"
    ELSE "healthy"

\* Determine status
Status(issues, warnings) ==
    IF issues # <<>> THEN "unhealthy"
    ELSE IF warnings # <<>> THEN "degraded"
    ELSE "healthy"

analyze_metrics(metrics) ==
    [status |-> Status(Issues(metrics), Warnings(metrics)),
     issues |-> Issues(metrics),
     warnings |-> Warnings(metrics)]

Analyze ==
    /\ mpc = "collected"
    /\ analysis' = analyze_metrics(snapshot)
    /\ mpc' = "analyzed"
    /\ UNCHANGED snapshot
    /\ UNCHANGED otherThanMon

InitMonitor ==
    /\ DiagIdle
    /\ mpc = "collected"
    /\ snapshot \in Snapshots
    /\ analysis = NoAnalysis
    /\ PipeIdle /\ CollIdle /\ ToolsIdle /\ TraceIdle /\ ArpIdle /\ PingIdle /\ ApiIdle /\ ScoreIdle /\ DirectIdle

NextMonitor == Analyze

SpecMonitor == InitMonitor /\ [][NextMonitor]_vars

----------------------------------------------------------------------------
(* WorkingDiagnosticAgent.diagnose: the five tools *)

\* results[key] = value
Put(dict, key, value) ==
    [k \in DOMAIN dict \cup {key} |-> IF k = key THEN value ELSE dict[k]]

ToolSucceeded == [success |-> TRUE, has_error |-> FALSE]
\* The tool's own failure JSON, and the dict an except clause of diagnose
\* stores: both are {'success': False, 'error': ...}.
ToolFailed == [success |-> FALSE, has_error |-> TRUE]

\* What a try/except block of diagnose leaves under the tool's key.
Recorded(key) == IF tool_outcome[key] = "ok" THEN ToolSucceeded ELSE ToolFailed

\* Lines 88-94. The print at line 91 indexes ['results'], which the failure
\* JSON lacks: the KeyError lands in the except clause, which stores the
\* failure dict again.
RunPingMultiple ==
    /\ dpc = "ping_multiple"
    /\ tool_log' = Append(tool_log, "ping_multiple")
    /\ tool_results' =
          IF tool_outcome["ping_multiple"] = "failed"
          THEN Put(Put(tool_results, "ping_multiple", ToolFailed),
                   "ping_multiple", ToolFailed)
          ELSE Put(tool_results, "ping_multiple", Recorded("ping_multiple"))
    /\ dpc' = "traceroute"
    /\ UNCHANGED tool_outcome
    /\ UNCHANGED otherThanTools

\* Lines 98-107.
RunTraceroute ==
    /\ dpc = "traceroute"
    /\ tool_log' = Append(tool_log, "traceroute")
    /\ tool_results' = Put(tool_results, "traceroute", Recorded("traceroute"))
    /\ dpc' = "wifi_scan"
    /\ UNCHANGED tool_outcome
    /\ UNCHANGED otherThanTools

\* RunWifiScan that gives up on the remaining tools when the scan fails.
RunWifiScan_StopsOnFailure ==
    /\ dpc = "wifi_scan"
    /\ tool_log' = Append(tool_log, "wifi_scan")
    /\ tool_results' = Put(tool_results, "wifi_scan", Recorded("wifi_scan"))
    /\ dpc' = IF tool_outcome["wifi_scan"] = "ok" THEN "dns_check" ELSE "analyze"
    /\ UNCHANGED tool_outcome
    /\ UNCHANGED otherThanTools

\* Lines 111-120.
RunWifiScan ==
    /\ dpc = "wifi_scan"
    /\ tool_log' = Append(tool_log, "wifi_scan")
    /\ tool_results' = Put(tool_results, "wifi_scan", Recorded("wifi_scan"))
    /\ dpc' = "dns_check"
    /\ UNCHANGED tool_outcome
    /\ UNCHANGED otherThanTools

\* Lines 124-133.
RunDnsCheck ==
    /\ dpc = "dns_check"
    /\ tool_log' = Append(tool_log, "dns_check")
    /\ tool_results' = Put(tool_results, "dns_check", Recorded("dns_check"))
    /\ dpc' = "arp_table"
    /\ UNCHANGED tool_outcome
    /\ UNCHANGED otherThanTools

\* Lines 137-146; then line 153 hands results to analyze_with_rules.
RunArpTable ==
    /\ dpc = "arp_table"
    /\ tool_log' = Append(tool_log, "arp_table")
    /\ tool_results' = Put(tool_results, "arp_table", Recorded("arp_table"))
    /\ dpc' = "analyze"
    /\ UNCHANGED tool_outcome
    /\ UNCHANGED otherThanTools

InitDiagnose ==
    /\ DiagIdle /\ MonIdle /\ PipeIdle /\ CollIdle /\ TraceIdle /\ ArpIdle /\ PingIdle /\ ApiIdle /\ ScoreIdle /\ DirectIdle
    /\ dpc = "ping_multiple"
    /\ tool_outcome \in [Tools -> ToolOutcomes]
    /\ tool_results = NoResults
    /\ tool_log = <<>>

NextDiagnose ==
    RunPingMultiple \/ RunTraceroute \/ RunWifiScan \/ RunDnsCheck \/ RunArpTable

SpecDiagnose == InitDiagnose /\ [][NextDiagnose]_vars

----------------------------------------------------------------------------
(* run_traceroute: parsing the hop lines *)

MaxHops == 3

\* The whitespace-separated parts of a line. A printed time is kept in
\* thousandths of a millisecond, as traceroute prints three decimals.
HopNum(n) == [kind |-> "int", text |-> "", val |-> n]
Host(name) == [kind |-> "host", text |-> name, val |-> 0]
Paren(name) == [kind |-> "paren", text |-> name, val |-> 0]
Star == [kind |-> "star", text |-> "*", val |-> 0]
Time(v) == [kind |-> "time", text |-> "", val |-> v]
Unit == [kind |-> "unit", text |-> "ms", val |-> 0]
TimeUnit(v) == [kind |-> "timeunit", text |-> "", val |-> v]

\* Printed times; none is a tie of the rounding to two decimals.
PrintedTimes == {1234, 12678}
HopHosts == {"192.168.1.1"}

\* The lines traceroute -q 1 prints for hop n: the hop answered (with or
\* without a resolved name in front of the address) or it did not.
HopLines(n) ==
    {<<HopNum(n), Star>>}
    \cup {<<HopNum(n), Host(h), Time(v), Unit>> : h \in HopHosts, v \in PrintedTimes}
    \cup {<<HopNum(n), Host(h), Paren(h), Time(v), Unit>> : h \in HopHosts, v \in PrintedTimes}
    \cup {<<HopNum(n), Host(h), TimeUnit(v)>> : h \in HopHosts, v \in PrintedTimes}

Outputs ==
    UNION {{ls \in [1..n -> UNION {HopLines(k) : k \in 1..n}] :
              \A k \in 1..n : ls[k] \in HopLines(k)} : n \in 0..MaxHops}

\* str.isdigit()
IsDigit(part) == part.kind = "int"
\* 'ms' in part
ContainsMs(part) == part.kind \in {"unit", "timeunit"}
\* float(part.replace('ms', '')) raises ValueError on the empty string
FloatRaises(part) == part.kind = "unit"
\* round(latency, 2), in hundredths of a millisecond
Round2(v) == (v + 5) \div 10

\* The loop over parts[2:]: the first part that holds 'ms' and parses.
RECURSIVE Latency(_, _)
Latency(parts, i) ==
    IF i > Len(parts) THEN None
    ELSE IF ContainsMs(parts[i]) /\ ~FloatRaises(parts[i]) THEN Round2(parts[i].val)
    ELSE Latency(parts, i + 1)

\* The body of the loop over the lines: what the line adds to hops.
ParseHop(parts) ==
    IF Len(parts) >= 3 /\ IsDigit(parts[1])
    THEN <<[hop |-> parts[1].val,
            host |-> IF parts[2] = Star THEN "timeout" ELSE parts[2].text,
            latency_ms |-> Latency(parts, 3)]>>
    ELSE <<>>

ParseLine ==
    /\ trpc = "loop" /\ line_no <= Len(lines)
    /\ hops' = hops \o ParseHop(lines[line_no])
    /\ line_no' = line_no + 1
    /\ UNCHANGED <<trpc, lines>>
    /\ UNCHANGED otherThanTrace

\* Lines 62-67: the success JSON with the hops.
ReturnHops ==
    /\ trpc = "loop" /\ line_no > Len(lines)
    /\ trpc' = "done"
    /\ UNCHANGED <<lines, line_no, hops>>
    /\ UNCHANGED otherThanTrace

InitTraceroute ==
    /\ DiagIdle /\ MonIdle /\ PipeIdle /\ CollIdle /\ ToolsIdle /\ ArpIdle /\ PingIdle /\ ApiIdle /\ ScoreIdle /\ DirectIdle
    /\ trpc = "loop"
    /\ lines \in Outputs
    /\ line_no = 1
    /\ hops = <<>>

NextTraceroute == ParseLine \/ ReturnHops

SpecTraceroute == InitTraceroute /\ [][NextTraceroute]_vars

----------------------------------------------------------------------------
(* check_arp_table: parsing the lines of arp -n *)

MaxArpLines == 3

ArpIps == {"192.168.1.1", "192.168.1.50"}
ArpMacs == {"aa:bb:cc:dd:ee:ff"}
Incomplete == "(incomplete)"

\* The whitespace-separated parts of a line of arp -n: address, hardware
\* type, hardware address, flags and interface for a resolved neighbour;
\* the hardware type and flags columns are blank for an unresolved one.
ArpLines ==
    {<<ip, "ether", mac, "C", "wlan0">> : ip \in ArpIps, mac \in ArpMacs}
    \cup {<<ip, Incomplete, "wlan0">> : ip \in ArpIps}

ArpOutputs == UNION {[1..n -> ArpLines] : n \in 0..MaxArpLines}

\* The body of the loop over the lines: what the line adds to entries.
ParseArp(parts) ==
    IF Len(parts) >= 3
    THEN <<[ip |-> parts[1],
            mac |-> IF parts[3] # Incomplete THEN parts[3] ELSE "None",
            interface |-> IF Len(parts) > 4 THEN parts[Len(parts)] ELSE "None"]>>
    ELSE <<>>

ParseArpLine ==
    /\ apc = "loop" /\ arp_no <= Len(arp_lines)
    /\ arp_entries' = arp_entries \o ParseArp(arp_lines[arp_no])
    /\ arp_no' = arp_no + 1
    /\ UNCHANGED <<apc, arp_lines>>
    /\ UNCHANGED otherThanArp

\* Lines 283-287: the success JSON with the entries.
ReturnEntries ==
    /\ apc = "loop" /\ arp_no > Len(arp_lines)
    /\ apc' = "done"
    /\ UNCHANGED <<arp_lines, arp_no, arp_entries>>
    /\ UNCHANGED otherThanArp

InitArp ==
    /\ DiagIdle /\ MonIdle /\ PipeIdle /\ CollIdle /\ ToolsIdle /\ TraceIdle /\ PingIdle /\ ApiIdle /\ ScoreIdle /\ DirectIdle
    /\ apc = "loop"
    /\ arp_lines \in ArpOutputs
    /\ arp_no = 1
    /\ arp_entries = <<>>

NextArp == ParseArpLine \/ ReturnEntries

SpecArp == InitArp /\ [][NextArp]_vars

----------------------------------------------------------------------------
(* The ping probes: monitor ping_test, one target of ping_multiple_targets *)
(* and NetworkTools.ping_test                                              *)

\* count= of the icmplib calls.
MonitorCount == 3
TargetCount == 5
\* count= of NetworkTools.ping_test: its default, and start_monitor's.
ToolsCounts == {3, 4}

Rtts == {4, 1234, 12678}

\* round(x, 1) of a fraction, as tenths.
Round1(loss) == <<((loss[1] * 100) \div loss[2] + 5) \div 10, 10>>

\* What icmplib can answer for count packets.
IcmpReplies(count) ==
    {PingRaised, IcmpHost(FALSE, 0, <<count, count>>)}
    \cup {IcmpHost(TRUE, a, <<count - received, count>>) :
             received \in 1..count, a \in Rtts}

\* The loss the ping command prints: a whole percentage, or one with four
\* decimals when it is not whole.
PrintedLoss(sent, lost) ==
    IF (lost * 100) % sent = 0
    THEN <<(lost * 100) \div sent>>
    ELSE <<(lost * 100) \div sent,
           (((lost * 10000000) \div sent + 5) \div 10) % 10000>>

\* The round-trip line of iputils, of BSD ping, and one that reads "avg = ".
RttLabels == {<<"min", "avg", "max", "mdev">>, <<"min", "avg", "max", "stddev">>,
              <<"avg">>}

\* What the ping command can answer: it exits 0 when a reply came back,
\* 1 when none did (and prints no round-trip line), 2 on an error.
CommandReplies ==
    {PingTimeout, PingRaised, PingExit(2, <<>>, <<>>, <<>>)}
    \cup {PingExit(1, PrintedLoss(sent, sent), <<>>, <<>>) : sent \in ToolsCounts}
    \cup UNION {{PingExit(0, PrintedLoss(sent, lost), label, [i \in 1..Len(label) |-> a]) :
                   lost \in 0..(sent - 1), label \in RttLabels, a \in Rtts} :
                sent \in ToolsCounts}

\* re.search(r'(\d+)% packet loss', stdout): the digits right before the '%'.
LossMatch(r) == IF r.loss_text = <<>> THEN None ELSE r.loss_text[Len(r.loss_text)]

\* re.search(r'avg = ([\d.]+)', stdout): "avg" must stand right before " = ",
\* and the number captured is the first one after it.
LatencyMatch(r) ==
    IF r.label # <<>> /\ r.label[Len(r.label)] = "avg" THEN r.times[1] ELSE None

\* monitor_agent.ping_test: the dict it dumps.
PingTestResult(r) ==
    IF r.kind = "host"
    THEN [success |-> r.is_alive,
          has_latency |-> TRUE,
          latency_ms |-> IF r.avg_rtt # 0 THEN Round2(r.avg_rtt) ELSE None,
          has_packet_loss |-> TRUE,
          packet_loss |-> r.packet_loss]
    ELSE NoPing

\* ping_multiple_targets: the dict appended for a target that is pinged.
PingTargetResult(r) ==
    IF r.kind = "host"
    THEN [success |-> r.is_alive,
          has_latency |-> TRUE,
          latency_ms |-> IF r.avg_rtt # 0 THEN Round2(r.avg_rtt) ELSE None,
          has_packet_loss |-> TRUE,
          packet_loss |-> Round1(r.packet_loss)]
    ELSE NoPing

\* NetworkTools.ping_test: the dict it returns; its avg_latency_ms is
\* latency_ms here, in hundredths like the other two.
ToolsPingResult(r) ==
    IF r.kind = "exited"
    THEN LET success == (r.returncode = 0)
             loss_match == LossMatch(r)
             latency_match == LatencyMatch(r)
         IN [success |-> success,
             has_latency |-> TRUE,
             latency_ms |-> IF success /\ latency_match # None
                            THEN latency_match \div 10 ELSE None,
             has_packet_loss |-> TRUE,
             packet_loss |-> IF success /\ loss_match # None
                             THEN <<loss_match, 1>> ELSE <<100, 1>>]
    ELSE IF r.kind = "timeout"
    THEN [success |-> FALSE, has_latency |-> TRUE, latency_ms |-> None,
          has_packet_loss |-> TRUE, packet_loss |-> <<100, 1>>]
    ELSE NoPing

PingTest ==
    /\ ppc = "call" /\ probe_name = "ping_test"
    /\ ping_out' = PingTestResult(reply)
    /\ ppc' = "done"
    /\ UNCHANGED <<probe_name, reply>>
    /\ UNCHANGED otherThanPing

PingTarget ==
    /\ ppc = "call" /\ probe_name = "ping_multiple_targets"
    /\ ping_out' = PingTargetResult(reply)
    /\ ppc' = "done"
    /\ UNCHANGED <<probe_name, reply>>
    /\ UNCHANGED otherThanPing

ToolsPingTest ==
    /\ ppc = "call" /\ probe_name = "NetworkTools.ping_test"
    /\ ping_out' = ToolsPingResult(reply)
    /\ ppc' = "done"
    /\ UNCHANGED <<probe_name, reply>>
    /\ UNCHANGED otherThanPing

InitPing ==
    /\ ppc = "call"
    /\ \/ probe_name = "ping_test" /\ reply \in IcmpReplies(MonitorCount)
       \/ probe_name = "ping_multiple_targets" /\ reply \in IcmpReplies(TargetCount)
       \/ probe_name = "NetworkTools.ping_test" /\ reply \in CommandReplies
    /\ ping_out = NoPing
    /\ DiagIdle /\ MonIdle /\ PipeIdle /\ CollIdle /\ ToolsIdle /\ TraceIdle /\ ArpIdle /\ ApiIdle /\ ScoreIdle /\ DirectIdle

NextPing == PingTest \/ PingTarget \/ ToolsPingTest

SpecPing == InitPing /\ [][NextPing]_vars

----------------------------------------------------------------------------
(* NetworkMonitor.collect_metrics and the history buffer *)

max_history == 100
MaxCollects == 102
MaxRequests == 3

\* A caller enters collect_metrics.
Call(t) ==
    /\ t \in callers
    /\ tpc[t] \in {"idle", "returned", "raised"}
    /\ started < limit
    /\ started' = started + 1
    /\ tpc' = [tpc EXCEPT ![t] = "probing"]
    /\ UNCHANGED <<metrics_history, cur_metrics, net, callers, limit, collected, clock>>
    /\ UNCHANGED otherThanColl

\* Lines 291-304: the five probes, then the metrics dict with its timestamp.
\* dns_lookup builds its Resolver before its try (lines 71-73), so a failure
\* there leaves collect_metrics as an exception.
Probe(t) ==
    /\ tpc[t] = "probing"
    /\ IF net.dns = "no_resolver"
       THEN /\ tpc' = [tpc EXCEPT ![t] = "raised"]
            /\ UNCHANGED <<cur_metrics, clock>>
       ELSE /\ clock' = clock + 1
            /\ cur_metrics' = [cur_metrics EXCEPT ![t] = NewMetrics(clock', net)]
            /\ tpc' = [tpc EXCEPT ![t] = "append"]
    /\ UNCHANGED <<metrics_history, net, callers, limit, started, collected>>
    /\ UNCHANGED otherThanColl

\* Line 307.
AppendHistory(t) ==
    /\ tpc[t] = "append"
    /\ metrics_history' = Append(metrics_history, cur_metrics[t])
    /\ tpc' = [tpc EXCEPT ![t] = "trim"]
    /\ UNCHANGED <<cur_metrics, net, callers, limit, started, collected, clock>>
    /\ UNCHANGED otherThanColl

\* Trim that evicts as soon as the buffer is full.
Trim_AtCapacity(t) ==
    /\ tpc[t] = "trim"
    /\ metrics_history' = IF Len(metrics_history) >= max_history
                          THEN Tail(metrics_history) ELSE metrics_history
    /\ tpc' = [tpc EXCEPT ![t] = "returned"]
    /\ collected' = Append(collected, cur_metrics[t])
    /\ UNCHANGED <<cur_metrics, net, callers, limit, started, clock>>
    /\ UNCHANGED otherThanColl

\* Lines 308-311: pop(0) when the buffer has outgrown max_history, return.
Trim(t) ==
    /\ tpc[t] = "trim"
    /\ metrics_history' = IF Len(metrics_history) > max_history
                          THEN Tail(metrics_history) ELSE metrics_history
    /\ tpc' = [tpc EXCEPT ![t] = "returned"]
    /\ collected' = Append(collected, cur_metrics[t])
    /\ UNCHANGED <<cur_metrics, net, callers, limit, started, clock>>
    /\ UNCHANGED otherThanColl

InitCollector(who, calls_made) ==
    /\ DiagIdle /\ MonIdle /\ PipeIdle /\ ToolsIdle /\ TraceIdle /\ ArpIdle /\ PingIdle /\ ApiIdle /\ ScoreIdle /\ DirectIdle
    /\ metrics_history = <<>>
    /\ tpc = [t \in Threads |-> "idle"]
    /\ cur_metrics = [t \in Threads |-> NoMetrics]
    /\ net \in Nets
    /\ callers = who
    /\ limit = calls_made
    /\ started = 0
    /\ collected = <<>>

\* One caller (run_monitoring, run_pipeline): the calls follow one another.
InitCollect == InitCollector({1}, MaxCollects)

NextCollect == \E t \in Threads : Call(t) \/ Probe(t) \/ AppendHistory(t) \/ Trim(t)

SpecCollect == InitCollect /\ [][NextCollect]_vars

\* The Flask server runs threaded: two requests share the global monitor.
InitThreads == InitCollector(Threads, MaxRequests)

SpecThreads == InitThreads /\ [][NextCollect]_vars

----------------------------------------------------------------------------
(* The programs that run a check and decide whether to diagnose:           *)
(* run_pipeline.py, POST /api/diagnose and NetworkMonitor.run_monitoring   *)

MaxTicks == 3

Programs == {"run_pipeline", "api_diagnose", "run_monitoring"}

\* run_pipeline.py lines 25-40: check_once, then diagnose(alert).
RunPipeline ==
    /\ program = "run_pipeline" /\ mpc = "analyzed"
    /\ diagnosed' = TRUE
    /\ mpc' = "finished"
    /\ UNCHANGED <<snapshot, analysis, program, last_status, ticks, tick_log>>
    /\ UNCHANGED otherThanPipe

\* flask_api.py lines 153-183 with a monitor: check_once, then a fresh
\* agent's diagnose(alert).
ApiDiagnose ==
    /\ program = "api_diagnose" /\ mpc = "analyzed"
    /\ diagnosed' = TRUE
    /\ mpc' = "finished"
    /\ UNCHANGED <<snapshot, analysis, program, last_status, ticks, tick_log>>
    /\ UNCHANGED otherThanPipe

\* MonitoringTick that calls back on every check that is not healthy.
MonitoringTick_EveryTime ==
    /\ program = "run_monitoring" /\ mpc = "analyzed"
    /\ diagnosed' = (analysis.status # "healthy")
    /\ tick_log' = Append(tick_log, [status |-> analysis.status, called |-> diagnosed'])
    /\ last_status' = analysis.status
    /\ mpc' = "sleeping"
    /\ UNCHANGED <<snapshot, analysis, program, ticks>>
    /\ UNCHANGED otherThanPipe

\* run_monitoring lines 493-503: the callback is invoked only when the
\* status has just left healthy.
MonitoringTick ==
    /\ program = "run_monitoring" /\ mpc = "analyzed"
    /\ diagnosed' = (analysis.status # "healthy" /\ last_status = "healthy")
    /\ tick_log' = Append(tick_log, [status |-> analysis.status, called |-> diagnosed'])
    /\ last_status' = analysis.status
    /\ mpc' = "sleeping"
    /\ UNCHANGED <<snapshot, analysis, program, ticks>>
    /\ UNCHANGED otherThanPipe

\* run_monitoring lines 483-486: after the sleep, the next collect_metrics.
NextTick ==
    /\ program = "run_monitoring" /\ mpc = "sleeping"
    /\ ticks < MaxTicks
    /\ ticks' = ticks + 1
    /\ snapshot' \in Snapshots
    /\ analysis' = NoAnalysis
    /\ diagnosed' = FALSE
    /\ mpc' = "collected"
    /\ UNCHANGED <<program, last_status, tick_log>>
    /\ UNCHANGED otherThanPipe

InitPipeline ==
    /\ DiagIdle
    /\ mpc = "collected"
    /\ snapshot \in Snapshots
    /\ analysis = NoAnalysis
    /\ program \in Programs
    /\ last_status = "healthy"
    /\ diagnosed = FALSE
    /\ ticks = 1
    /\ tick_log = <<>>
    /\ CollIdle /\ ToolsIdle /\ TraceIdle /\ ArpIdle /\ PingIdle /\ ApiIdle /\ ScoreIdle /\ DirectIdle

NextPipeline == Analyze \/ RunPipeline \/ ApiDiagnose \/ MonitoringTick \/ NextTick

SpecPipeline == InitPipeline /\ [][NextPipeline]_vars

----------------------------------------------------------------------------
(* POST /api/diagnose: run_full_pipeline, stage by stage *)

MaxSolutions == 8
\* solution_list[:7]
TopSolutions == 7

\* The llm global is None when its construction failed, and then there is no
\* monitor either (flask_api.py lines 26-50); with an llm the monitor can
\* still be missing, and check_once can raise.  The diagnostic stage raises
\* or returns; generate_solutions, when it is called, raises or returns.
Plans ==
    {pl \in [llm : BOOLEAN, monitor : {"missing", "raises", "ok"},
              diagnostic : {"raises", "ok"}, solution : {"raises", "ok"}] :
        ~pl.llm => pl.monitor = "missing"}

\* What check_once collects in the requests considered here.
ApiSnapshots ==
    {sn \in Snapshots : sn.dns.success /\ sn.interface.up /\ sn.gateway.success}

\* The metrics dict as check_wifi_signal and the other probes built it:
\* signal_dbm is a key of the signal result only when the probe succeeded.
CheckedMetrics(sn) ==
    [ping |-> sn.ping, dns |-> sn.dns,
     signal |-> [success |-> sn.signal.success, has_signal_dbm |-> sn.signal.success,
                 signal_dbm |-> sn.signal.signal_dbm],
     interface |-> sn.interface, gateway |-> sn.gateway]

\* monitor.check_once(): collect_metrics, then analyze_metrics.
check_once(now, sn) ==
    [timestamp |-> now, status |-> analyze_metrics(sn).status,
     metrics |-> CheckedMetrics(sn)]

OfflineAlert(now) == [timestamp |-> now, status |-> "offline", metrics |-> OfflineMetrics]

Items(kind, n) == [i \in 1..n |-> <<kind, i>>]

\* What diagnose returns to the API in the requests considered here.
ApiIssues == {"network_healthy", "dns_resolution_failure"}
RecCounts == {0, 4, MaxSolutions}
ApiScores == {5, 100}
\* Numbered lines in the text-generation collaborator's answer.
AiLineCounts == {0, 3, MaxSolutions}

\* flask_api.py lines 191-208.
OfflineDiagnosis(now) == ApiDiagnosis(now, "network_offline", Items("offline", 4), TRUE, 0)

\* SolutionAgent.generate_solutions when crew.kickoff returns a text with
\* k numbered lines: the solutions_list of its report.
generate_solutions(d, k) ==
    IF d.primary_issue = "network_healthy" THEN Items("healthy", 3)
    ELSE IF k >= 3 THEN Items("ai", k)
    ELSE Items("template", 5)

\* STEP 1.
MonitorStage ==
    /\ api_pc = "monitor"
    /\ IF plan.monitor = "ok"
       THEN /\ clock' = clock + 2
            /\ \E sn \in ApiSnapshots : api_alert' = check_once(clock', sn)
       ELSE /\ clock' = clock + 1
            /\ api_alert' = OfflineAlert(clock')
    /\ api_pc' = "diagnostic"
    /\ UNCHANGED <<plan, api_diagnosis, solution_list, generated, response>>
    /\ UNCHANGED otherThanApi

\* STEP 2.
DiagnosticStage ==
    /\ api_pc = "diagnostic"
    /\ clock' = clock + 1
    /\ IF plan.diagnostic = "ok"
       THEN \E issue \in ApiIssues, n \in RecCounts, scored \in {FALSE, plan.llm},
               score \in ApiScores :
               api_diagnosis' = ApiDiagnosis(clock', issue, Items("rec", n), scored,
                                             IF scored THEN score ELSE None)
       ELSE api_diagnosis' = OfflineDiagnosis(clock')
    /\ api_pc' = "solution"
    /\ UNCHANGED <<plan, api_alert, solution_list, generated, response>>
    /\ UNCHANGED otherThanApi

\* SolutionStage that leaves the choice to the llm alone.
SolutionStage_OfflineToo ==
    /\ api_pc = "solution"
    /\ IF plan.llm
       THEN /\ generated' = TRUE
            /\ IF plan.solution = "ok"
               THEN \E k \in AiLineCounts :
                       solution_list' = generate_solutions(api_diagnosis, k)
               ELSE solution_list' = api_diagnosis.recommendations
       ELSE /\ solution_list' = api_diagnosis.recommendations
            /\ UNCHANGED generated
    /\ api_pc' = "respond"
    /\ UNCHANGED <<clock, plan, api_alert, api_diagnosis, response>>
    /\ UNCHANGED otherThanApi

\* STEP 3.
SolutionStage ==
    /\ api_pc = "solution"
    /\ IF plan.llm /\ api_diagnosis.primary_issue # "network_offline"
       THEN /\ generated' = TRUE
            /\ IF plan.solution = "ok"
               THEN \E k \in AiLineCounts :
                       solution_list' = generate_solutions(api_diagnosis, k)
               ELSE solution_list' = api_diagnosis.recommendations
       ELSE /\ solution_list' = api_diagnosis.recommendations
            /\ UNCHANGED generated
    /\ api_pc' = "respond"
    /\ UNCHANGED <<clock, plan, api_alert, api_diagnosis, response>>
    /\ UNCHANGED otherThanApi

\* The response dict and jsonify.
Respond ==
    /\ api_pc = "respond"
    /\ response' =
         [http |-> 200,
          timestamp |-> api_diagnosis.timestamp,
          pipeline_complete |-> TRUE,
          monitor |-> [status |-> api_alert.status, metrics |-> api_alert.metrics],
          diagnosis |-> [primary_issue |-> api_diagnosis.primary_issue,
                         health_score |-> IF api_diagnosis.has_score
                                          THEN api_diagnosis.network_health_score
                                          ELSE None],
          solutions |-> [recommendations |->
                             SubSeq(solution_list, 1,
                                    IF Len(solution_list) < TopSolutions
                                    THEN Len(solution_list) ELSE TopSolutions),
                         total |-> Len(solution_list)]]
    /\ api_pc' = "done"
    /\ UNCHANGED <<clock, plan, api_alert, api_diagnosis, solution_list, generated>>
    /\ UNCHANGED otherThanApi

InitApi ==
    /\ DiagIdle
    /\ api_pc = "monitor"
    /\ plan \in Plans
    /\ api_alert = NoApiAlert
    /\ api_diagnosis = NoApiDiagnosis
    /\ solution_list = <<>>
    /\ generated = FALSE
    /\ response = NoResponse
    /\ MonIdle /\ PipeIdle /\ CollIdle /\ ToolsIdle /\ TraceIdle /\ ArpIdle /\ PingIdle /\ ScoreIdle /\ DirectIdle

NextApi == MonitorStage \/ DiagnosticStage \/ SolutionStage \/ Respond

SpecApi == InitApi /\ [][NextApi]_vars

\* Flask runs the handler of an accepted request to its return statement.
SpecApiFair == SpecApi /\ WF_vars(NextApi)

----------------------------------------------------------------------------
(* The health score: _fallback_health_score, _generate_ai_health_score and *)
(* the lines of analyze_with_rules that call it                            *)

ScoredRouterMs == {10, 50, 51, 100, 101, 120}
ScoredInternetMs == {50, 100, 101, 200, 201, 250}
ScoredSignalDbm == {-85, -81, -80, -71, -70, -60, 0}
ScoredLoss == {0, 5, 6, 10}
\* The numbers the response parser can come up with; it clamps them.
ParsedNumbers == {0, 95, 95100}

ScoreInputs(routers) ==
    {ScoreInput(r, i, sg, l) :
        r \in routers, i \in ScoredInternetMs, sg \in ScoredSignalDbm, l \in ScoredLoss}

Collaborators ==
    {Collaborator("absent", None), Collaborator("raises", None),
     Collaborator("answers", None)}
    \cup {Collaborator("answers", n) : n \in ParsedNumbers}

\* The issues list, in the order the checks append to it.
ScoreIssues(in) ==
    (IF in.router_latency > 100 THEN <<"high router latency">>
     ELSE IF in.router_latency > 50 THEN <<"moderate router latency">> ELSE <<>>)
    \o (IF in.internet_latency > 200 THEN <<"high internet latency">> ELSE <<>>)
    \o (IF in.signal_dbm < -80 THEN <<"weak WiFi signal">> ELSE <<>>)
    \o (IF in.packet_loss > 5 THEN <<"packet loss">> ELSE <<>>)

\* fallback_health_score with the moderate router penalty added to the high one.
fallback_health_score_NoElif(in) ==
    LET score == 100
                 - (IF in.router_latency > 100 THEN 30 ELSE 0)
                 - (IF in.router_latency > 50 THEN 15 ELSE 0)
                 - (IF in.internet_latency > 200 THEN 20
                    ELSE IF in.internet_latency > 100 THEN 10 ELSE 0)
                 - (IF in.signal_dbm < -80 THEN 25
                    ELSE IF in.signal_dbm < -70 THEN 10 ELSE 0)
                 - (IF in.packet_loss > 5 THEN 20 ELSE 0)
    IN [has_score |-> TRUE,
        score |-> IF score < 0 THEN 0 ELSE score,
        rule_based |-> FALSE,
        explanation |-> IF ScoreIssues(in) # <<>> THEN ScoreIssues(in)
                        ELSE <<"Network performing well">>]

\* WorkingDiagnosticAgent._fallback_health_score: (score, explanation); the
\* explanation is the list that ", ".join puts together.
fallback_health_score(in) ==
    LET score == 100
                 - (IF in.router_latency > 100 THEN 30
                    ELSE IF in.router_latency > 50 THEN 15 ELSE 0)
                 - (IF in.internet_latency > 200 THEN 20
                    ELSE IF in.internet_latency > 100 THEN 10 ELSE 0)
                 - (IF in.signal_dbm < -80 THEN 25
                    ELSE IF in.signal_dbm < -70 THEN 10 ELSE 0)
                 - (IF in.packet_loss > 5 THEN 20 ELSE 0)
    IN [has_score |-> TRUE,
        score |-> IF score < 0 THEN 0 ELSE score,
        rule_based |-> FALSE,
        explanation |-> IF ScoreIssues(in) # <<>> THEN ScoreIssues(in)
                        ELSE <<"Network performing well">>]

\* max(0, min(100, score))
Clamp(score) == IF score > 100 THEN 100 ELSE IF score < 0 THEN 0 ELSE score

\* WorkingDiagnosticAgent._generate_ai_health_score with a scoring agent.
\* The task description formats router_latency with :.1f before the try
\* block, so a None router latency raises out of the method: the value is
\* then NoScore, which is what analyze_with_rules is left with.
generate_ai_health_score(in, c) ==
    IF in.router_latency = None THEN NoScore
    ELSE IF c.kind = "raises" THEN fallback_health_score(in)
    ELSE IF c.number = None
    THEN [fallback_health_score(in) EXCEPT !.rule_based = TRUE,
                                           !.score = Clamp(@)]
    ELSE [has_score |-> TRUE, score |-> Clamp(c.number), rule_based |-> FALSE,
          explanation |-> <<"answer">>]

\* A call of _fallback_health_score.
FallbackScore ==
    /\ spc = "call" /\ scorer = "_fallback_health_score"
    /\ score_out' = fallback_health_score(score_in)
    /\ spc' = "returned"
    /\ UNCHANGED <<scorer, collaborator, score_in>>
    /\ UNCHANGED otherThanScore

\* analyze_with_rules lines 306-317: the score is generated only when AI
\* scoring is enabled, and an exception leaves the diagnosis without one.
AnalyzeScore ==
    /\ spc = "call" /\ scorer = "analyze_with_rules"
    /\ score_out' = IF collaborator.kind = "absent" THEN NoScore
                    ELSE generate_ai_health_score(score_in, collaborator)
    /\ spc' = "returned"
    /\ UNCHANGED <<scorer, collaborator, score_in>>
    /\ UNCHANGED otherThanScore

InitScore ==
    /\ spc = "call"
    /\ \/ /\ scorer = "_fallback_health_score"
          /\ collaborator = Collaborator("absent", None)
          /\ score_in \in ScoreInputs(ScoredRouterMs)
       \/ /\ scorer = "analyze_with_rules"
          /\ collaborator \in Collaborators
          /\ score_in \in ScoreInputs(ScoredRouterMs \cup {None})
    /\ score_out = NoScore
    /\ DiagIdle /\ MonIdle /\ PipeIdle /\ CollIdle /\ ToolsIdle /\ TraceIdle /\ ArpIdle /\ PingIdle /\ ApiIdle /\ DirectIdle

NextScore == FallbackScore \/ AnalyzeScore

SpecScore == InitScore /\ [][NextScore]_vars

----------------------------------------------------------------------------
(* DirectDiagnosticAgent.analyze_results *)

MaxDirectHops == 6
\* traceroute_hops[:5]
EarlyHops == 5

\* latency_ms of a hop: None when the hop timed out or no part of its line
\* parsed as a time.
HopLatencies == {None, 20, 150}

RECURSIVE SeqsUpTo(_, _)
SeqsUpTo(S, n) ==
    IF n = 0 THEN {<<>>}
    ELSE SeqsUpTo(S, n - 1)
         \cup {Append(sq, x) : sq \in {t \in SeqsUpTo(S, n - 1) : Len(t) = n - 1}, x \in S}

ToolSets ==
    {ToolSet(d, r, i, h) : d \in {0, 2}, r \in BOOLEAN, i \in BOOLEAN,
                           h \in SeqsUpTo(HopLatencies, MaxDirectHops)}

\* The loop over traceroute_hops[:5] from hop i on: "yes" or "no" for
\* isp_delay, "raised" when a None latency is compared with 100.
RECURSIVE IspDelay(_, _)
IspDelay(latencies, i) ==
    IF i > Len(latencies) \/ i > EarlyHops THEN "no"
    ELSE IF latencies[i] = None THEN "raised"
    ELSE IF latencies[i] > 100 THEN "yes"
    ELSE IspDelay(latencies, i + 1)

RootCause(ts, isp_delay) ==
    IF ~(ts.total_devices > 0)
    THEN <<"Local network issue - router not responding", "HIGH">>
    ELSE IF ~ts.router_ok THEN <<"Router connectivity issue", "HIGH">>
    ELSE IF ~ts.internet_ok THEN <<"ISP/Internet connectivity issue", "HIGH">>
    ELSE IF isp_delay THEN <<"ISP network delays detected", "MEDIUM">>
    ELSE <<"Network appears healthy - may be intermittent issue", "LOW">>

AnalyzeResults ==
    /\ rpc = "call"
    /\ LET looped == IspDelay(tool_set.hops, 1)
           isp_delay == (looped = "yes")
       IN IF looped = "raised"
          THEN /\ rpc' = "raised"
               /\ UNCHANGED <<clock, direct>>
          ELSE /\ rpc' = "returned"
               /\ clock' = clock + 1
               /\ direct' = [root_cause |-> RootCause(tool_set, isp_delay)[1],
                             confidence |-> RootCause(tool_set, isp_delay)[2],
                             isp_delays_detected |-> isp_delay,
                             traceroute_hops |-> Len(tool_set.hops)]
    /\ UNCHANGED tool_set
    /\ UNCHANGED otherThanDirect

InitDirect ==
    /\ rpc = "call"
    /\ tool_set \in ToolSets
    /\ direct = NoDirect
    /\ DiagIdle /\ MonIdle /\ PipeIdle /\ CollIdle /\ ToolsIdle /\ TraceIdle /\ ArpIdle /\ PingIdle /\ ApiIdle /\ ScoreIdle

NextDirect == AnalyzeResults

SpecDirect == InitDirect /\ [][NextDirect]_vars

----------------------------------------------------------------------------
(* Properties of analyze_with_rules *)

Returned == pc = "done"
Measured(l) == l # None
PingOk == results.ping_multiple.success
AllToolsFailed ==
    /\ ~results.ping_multiple.success /\ ~results.traceroute.success
    /\ ~results.wifi_scan.success /\ ~results.dns_check.success
    /\ ~results.arp_table.success
InSeq(x, s) == \E i \in 1..Len(s) : s[i] = x
AllIn(xs, s) == \A i \in 1..Len(xs) : InSeq(xs[i], s)
NoneIn(xs, s) == \A i \in 1..Len(xs) : ~InSeq(xs[i], s)
LatencyIssues == {"high_local_network_latency", "high_external_latency",
                  "moderate_network_degradation"}

\* C1: analyze_with_rules never raises, whatever the alert and the tool
\* results are (a dead ping target included), and when all five tools failed
\* it returns network_status_unclear with confidence low.
C1_AlwaysDiagnoses ==
    /\ pc # "raised"
    /\ (Returned /\ AllToolsFailed) =>
           /\ diagnosis.primary_issue = "network_status_unclear"
           /\ diagnosis.confidence = "low"

\* C3: the latency branches are tried in the order high_local (router > 100),
\* high_external (router < 50 and average internet > 200), moderate; the first
\* that holds decides primary_issue, root_cause and confidence, and no later
\* step changes these three fields once a latency branch has set them.
C3_FirstBranchDecides ==
    /\ (Returned /\ PingOk /\ Measured(router_latency) /\ router_latency > 100) =>
           /\ diagnosis.primary_issue = "high_local_network_latency"
           /\ diagnosis.confidence = "high"
    /\ (Returned /\ PingOk /\ Measured(router_latency) /\ router_latency < 50
            /\ AvgGT(internet_latency, 200)) =>
           /\ diagnosis.primary_issue = "high_external_latency"
           /\ diagnosis.confidence = "high"
    /\ (Returned /\ diagnosis.primary_issue = "moderate_network_degradation") =>
           /\ PingOk /\ Measured(router_latency)
           /\ ~(router_latency > 100)
           /\ ~(router_latency < 50 /\ AvgGT(internet_latency, 200))
    /\ (Returned /\ PingOk /\ router_latency = 20 /\ internet_latency = <<300, 300>>
            /\ signal_dbm = -50) =>
           /\ diagnosis.primary_issue = "high_external_latency"
           /\ diagnosis.confidence = "high"

C3_Frozen ==
    diagnosis.primary_issue \in LatencyIssues =>
        /\ diagnosis'.primary_issue = diagnosis.primary_issue
        /\ diagnosis'.root_cause = diagnosis.root_cause
        /\ diagnosis'.confidence = diagnosis.confidence

C3_BranchOrder == [](C3_FirstBranchDecides) /\ [][C3_Frozen]_vars

C3_Witness ==
    /\ Returned /\ router_latency = 120
    /\ diagnosis.primary_issue = "high_local_network_latency"
    /\ dns_latency > 1000 /\ signal_dbm = -85

\* C4: with ping_multiple successful and router latency above 100 ms the
\* diagnosis is high_local_network_latency / high; the WiFi items are
\* recommended exactly when the signal is below -70 dBm, otherwise the
\* router-load items are and no WiFi-repositioning item is.
WeakSignal == SignalKnown(signal_dbm) /\ signal_dbm < -70
C4_HighLocal ==
    (Returned /\ PingOk /\ Measured(router_latency) /\ router_latency > 100) =>
        /\ diagnosis.primary_issue = "high_local_network_latency"
        /\ diagnosis.confidence = "high"
        /\ AllIn(WifiRecs, diagnosis.recommendations) <=> WeakSignal
        /\ ~WeakSignal =>
               /\ AllIn(RouterLoadRecs, diagnosis.recommendations)
               /\ NoneIn(WifiRecs \o <<PriorityRec, "Move closer to router">>,
                         diagnosis.recommendations)

\* Scenario A: router 150, internet 80, signal -55.
C4_Witness ==
    /\ Returned /\ router_latency = 150 /\ internet_latency = <<80, 80>>
    /\ signal_dbm = -55
    /\ InSeq("Restart router", diagnosis.recommendations)

\* C5: when neither high_local nor high_external applies and
\* 50 <= router latency < 150, the diagnosis is moderate_network_degradation /
\* medium (also at exactly 50 ms), and the congested-channel recommendation is
\* present exactly when the WiFi scan succeeded with more than 20 networks.
C5_Moderate ==
    (Returned /\ PingOk /\ Measured(router_latency)
        /\ ~(router_latency > 100)
        /\ ~(router_latency < 50 /\ AvgGT(internet_latency, 200))
        /\ 50 <= router_latency /\ router_latency < 150) =>
        /\ diagnosis.primary_issue = "moderate_network_degradation"
        /\ diagnosis.confidence = "medium"
        /\ InSeq(CongestionRec, diagnosis.recommendations)
             <=> (results.wifi_scan.success /\ results.wifi_scan.networks_found > 20)

\* C6: when no latency branch matched and router latency < 50, average
\* internet latency < 100 and signal > -70, the diagnosis is network_healthy /
\* high and its only recommendation is the no-action entry.
C6_Healthy ==
    (Returned /\ PingOk /\ Measured(router_latency) /\ router_latency < 50
        /\ AvgLT(internet_latency, 100) /\ signal_dbm > -70) =>
        /\ diagnosis.primary_issue = "network_healthy"
        /\ diagnosis.confidence = "high"
        /\ diagnosis.recommendations = <<NoActionRec>>

\* Scenario C (router 30, internet 40, signal -60), here with a slow DNS.
C6_Witness ==
    /\ Returned /\ router_latency = 30 /\ internet_latency = <<40, 40>>
    /\ signal_dbm = -60 /\ dns_latency > 1000
    /\ diagnosis.primary_issue = "network_healthy"

Unclear == Returned /\ diagnosis.primary_issue = "network_status_unclear"

\* C7 as stated: in the unclear branch the confidence is low and the
\* continue-monitoring entry is the only recommendation.
C7_SingleRecommendation ==
    Unclear => /\ diagnosis.confidence = "low"
               /\ diagnosis.recommendations = <<MonitorRec>>

\* C7 amended: in the unclear branch the confidence is low and the
\* recommendations are the PRIORITY entry (if the signal is below -70), the
\* change-DNS entry (if DNS latency > 1000) and, last, the continue-monitoring
\* entry; it is the only entry exactly when neither of the two rules fired.
C7_MonitorRecLast ==
    Unclear => /\ diagnosis.confidence = "low"
               /\ diagnosis.recommendations =
                      (IF WeakSignal THEN <<PriorityRec>> ELSE <<>>)
                      \o (IF dns_latency > 1000 THEN <<DnsRec>> ELSE <<>>)
                      \o <<MonitorRec>>

C7_Witness ==
    /\ Unclear /\ WeakSignal /\ dns_latency > 1000
    /\ Len(diagnosis.recommendations) = 3

DnsEvidence == Ev("DNS resolution is slow", dns_latency, "")

\* C8 as stated: with DNS latency above 1000 ms the returned diagnosis holds
\* the DNS-slow evidence and the change-DNS recommendation in every branch.
C8_DnsInEveryBranch ==
    (Returned /\ dns_latency > 1000) =>
        /\ InSeq(DnsEvidence, diagnosis.evidence)
        /\ InSeq(DnsRec, diagnosis.recommendations)

\* C8 amended: with DNS latency above 1000 ms the returned diagnosis holds the
\* DNS-slow evidence in every branch, and the change-DNS recommendation in
\* every branch but network_healthy, whose only recommendation is the
\* no-action entry.
C8_DnsUnlessHealthy ==
    (Returned /\ dns_latency > 1000) =>
        /\ InSeq(DnsEvidence, diagnosis.evidence)
        /\ diagnosis.primary_issue # "network_healthy"
               => InSeq(DnsRec, diagnosis.recommendations)
        /\ diagnosis.primary_issue = "network_healthy"
               => diagnosis.recommendations = <<NoActionRec>>

C8_Witness ==
    /\ Returned /\ dns_latency = 1500
    /\ diagnosis.primary_issue = "high_external_latency"
    /\ InSeq(DnsRec, diagnosis.recommendations)

\* C9: with a known signal below -70 dBm the first recommendation of the
\* returned diagnosis is the PRIORITY improve-signal entry and the evidence
\* holds the quality-labelled WiFi signal entry.
C9_PriorityFirst ==
    (Returned /\ alert.has_signal /\ alert.signal_dbm < -70) =>
        /\ diagnosis.recommendations # <<>>
        /\ diagnosis.recommendations[1] = PriorityRec
        /\ InSeq(Ev("WiFi signal", alert.signal_dbm, Quality(alert.signal_dbm)),
                 diagnosis.evidence)

C9_Witness ==
    /\ Returned /\ alert.has_signal /\ alert.signal_dbm = -85
    /\ diagnosis.primary_issue = "moderate_network_degradation"
    /\ Len(diagnosis.recommendations) >= 5

\* The entry ping_multiple_targets recorded for the resolved default gateway.
GatewayEntry == results.ping_multiple.results[1]

\* C10: router_latency is the latency of the ping whose target is the resolved
\* default gateway, whatever private range the gateway is in, and that ping is
\* not counted into the internet latencies.
C10_GatewayIsRouter ==
    (pc \in {"rule2", "rule3", "fallback", "done"} /\ PingOk /\ gateway # NoGateway) =>
        /\ GatewayEntry.target = IpTarget(gateway)
        /\ router_latency = GatewayEntry.latency_ms
        /\ Len(internet_latency) = Len(PublicTargets)

AfterRule1 == pc \in {"rule2", "rule3", "fallback", "done"}

\* The latencies of the entries that are not the router and have success = true.
RECURSIVE SuccessfulPublicLatencies(_)
SuccessfulPublicLatencies(entries) ==
    IF entries = <<>> THEN <<>>
    ELSE (IF ~IsRouterTarget(Head(entries).target) /\ Head(entries).success
          THEN <<Head(entries).latency_ms>> ELSE <<>>)
         \o SuccessfulPublicLatencies(Tail(entries))

\* C11: the internet average is taken over exactly the non-router ping
\* results with success = true; a failed or errored public ping contributes
\* nothing to it (neither a 0 nor a null).
C11_MeanOfSuccessful ==
    (AfterRule1 /\ PingOk) =>
        internet_latency = SuccessfulPublicLatencies(results.ping_multiple.results)

IsPrefix(s, t) == Len(s) <= Len(t) /\ SubSeq(t, 1, Len(s)) = s

\* C12 as stated: while the diagnosis is built, evidence and recommendations
\* change only by appending at the end; nothing already added is removed,
\* replaced or preceded by a later entry.
C12_Appends ==
    /\ IsPrefix(diagnosis.evidence, diagnosis'.evidence)
    /\ IsPrefix(diagnosis.recommendations, diagnosis'.recommendations)

C12_AppendOnly == [][C12_Appends]_vars

\* C12 amended: the evidence list changes only by appending at the end; the
\* recommendations list changes only by appending at the end, except that the
\* signal rule inserts the PRIORITY entry in front of the entries already
\* there and the healthy fallback replaces the list by the no-action entry.
C12_AppendsOrPriorityOrHealthy ==
    /\ IsPrefix(diagnosis.evidence, diagnosis'.evidence)
    /\ \/ IsPrefix(diagnosis.recommendations, diagnosis'.recommendations)
       \/ /\ pc = "rule3" /\ WeakSignal
          /\ diagnosis'.recommendations = <<PriorityRec>> \o diagnosis.recommendations
       \/ /\ pc = "fallback" /\ diagnosis'.primary_issue = "network_healthy"
          /\ diagnosis'.recommendations = <<NoActionRec>>

C12_AppendOnlyButPriorityAndHealthy == [][C12_AppendsOrPriorityOrHealthy]_vars

C12_Witness ==
    /\ Returned /\ WeakSignal /\ dns_latency > 1000
    /\ diagnosis.primary_issue = "moderate_network_degradation"
    /\ diagnosis.recommendations[1] = PriorityRec
    /\ Len(diagnosis.evidence) >= 4

----------------------------------------------------------------------------
(* Properties of analyze_metrics *)

\* C2: the status is unhealthy iff there is an issue, degraded iff there is
\* no issue but a warning, healthy iff there is neither; warnings never
\* change an unhealthy result.
C2_StatusOrdering ==
    mpc = "analyzed" =>
        /\ analysis.status = "unhealthy" <=> analysis.issues # <<>>
        /\ analysis.status = "degraded"
              <=> (analysis.issues = <<>> /\ analysis.warnings # <<>>)
        /\ analysis.status = "healthy"
              <=> (analysis.issues = <<>> /\ analysis.warnings = <<>>)

\* A DNS failure together with a weak signal: an issue and a warning.
C2_Witness ==
    /\ mpc = "analyzed"
    /\ analysis.issues # <<>> /\ analysis.warnings # <<>>
    /\ analysis.status = "unhealthy"

HasType(list, type) == \E i \in 1..Len(list) : list[i].type = type

Twice == calls = 2 /\ pc = "done"

Dispatched == mpc \in {"finished", "sleeping"}

\* C15: the analysis of a check is passed to the diagnostic stage if and
\* only if its status is not healthy, in run_monitoring, run_pipeline and
\* POST /api/diagnose alike.
C15_DiagnosedIffNotHealthy ==
    Dispatched => (diagnosed <=> analysis.status # "healthy")

Min(a, b) == IF a < b THEN a ELSE b

Quiet == \A t \in callers : tpc[t] \in {"idle", "returned", "raised"}

\* C16: after n calls of collect_metrics that returned a snapshot, the
\* history holds exactly the min(n, 100) most recently collected snapshots,
\* in collection order.
C16_MostRecent ==
    Quiet =>
        LET n == Len(collected)
            k == Min(n, max_history)
        IN  /\ Len(metrics_history) = k
            /\ metrics_history = SubSeq(collected, n - k + 1, n)

\* The buffer has overflowed and the two oldest snapshots are gone.
C16_Witness ==
    /\ Quiet /\ Len(collected) = max_history + 2
    /\ Len(metrics_history) = max_history
    /\ metrics_history[1] = collected[3]

InFlight(t) == tpc[t] \in {"probing", "append", "trim"}

\* C17: collections on the shared monitor are serialized: at most one is in
\* flight at any time and the history is ordered by timestamp.
C17_Serialized ==
    /\ \A t, u \in callers : (InFlight(t) /\ InFlight(u)) => t = u
    /\ \A i, j \in 1..Len(metrics_history) :
          i < j => metrics_history[i].timestamp < metrics_history[j].timestamp

\* C18: whatever subset of the probes fails, a call of collect_metrics ends
\* by returning a snapshot that is in the history and whose five entries say
\* what each probe met: a failing probe is unsuccessful and carries an error,
\* the others are successful.
C18_AlwaysSnapshot ==
    \A t \in callers : tpc[t] \in {"returned", "raised"} =>
        /\ tpc[t] = "returned"
        /\ InSeq(cur_metrics[t], metrics_history)
        /\ \A p \in {"ping", "dns", "signal", "gateway"} :
              /\ cur_metrics[t][p].success <=> net[p] = "ok"
              /\ cur_metrics[t][p].has_error <=> net[p] # "ok"
        /\ cur_metrics[t].interface.up <=> net.interface = "ok"
        /\ cur_metrics[t].interface.has_error <=> net.interface # "ok"

\* What diagnose has done so far: the tools were called once each in the
\* fixed order and every one of them has a result under its own key; a tool
\* that did not succeed is recorded as unsuccessful with an error.
C19_EachOnceInOrder ==
    /\ Len(tool_log) <= Len(ToolOrder)
    /\ tool_log = SubSeq(ToolOrder, 1, Len(tool_log))
    /\ DOMAIN tool_results = {tool_log[i] : i \in 1..Len(tool_log)}
    /\ \A k \in DOMAIN tool_results :
          /\ tool_results[k].success <=> tool_outcome[k] = "ok"
          /\ tool_results[k].has_error <=> tool_outcome[k] # "ok"
    /\ dpc = "analyze" => DOMAIN tool_results = Tools

\* A step of diagnose leaves the results of the other tools as they were.
C19_OwnKeyOnly == \A k \in DOMAIN tool_results : tool_results'[k] = tool_results[k]

\* C19: diagnose runs the five tools exactly once each in the fixed order;
\* for every combination of tool failures the results handed to the rule
\* engine have exactly the five keys, a failed tool is recorded as
\* unsuccessful with an error under its own key only, the later tools still
\* run and the other keys are unaffected.
C19_FiveToolsAlways == [](dpc # "idle" => C19_EachOnceInOrder) /\ [][C19_OwnKeyOnly]_vars

\* The traceroute raised, the WiFi scan returned a failure, the rest ran.
C19_Witness ==
    /\ dpc = "analyze"
    /\ tool_outcome["traceroute"] = "raised" /\ tool_outcome["wifi_scan"] = "failed"
    /\ ~tool_results["traceroute"].success /\ ~tool_results["wifi_scan"].success
    /\ tool_results["ping_multiple"].success /\ tool_results["arp_table"].success
    /\ tool_log = ToolOrder

\* C20: run_traceroute returns one hop record per numbered hop line, in
\* ascending order with no hop number missing; a hop that did not answer is
\* kept with host 'timeout' and latency_ms None.
C20_EveryHopKept ==
    trpc = "done" =>
        /\ Len(hops) = Len(lines)
        /\ \A i \in 1..Len(hops) :
              /\ hops[i].hop = lines[i][1].val
              /\ lines[i][2] = Star =>
                    (hops[i].host = "timeout" /\ hops[i].latency_ms = None)

\* The printed time of a line whose latency is a number followed by the
\* separate part 'ms', or None when the line has no such pair.
RECURSIVE PrintedTime(_, _)
PrintedTime(parts, i) ==
    IF i + 1 > Len(parts) THEN None
    ELSE IF parts[i].kind = "time" /\ parts[i + 1] = Unit THEN parts[i].val
    ELSE PrintedTime(parts, i + 1)

\* C28: a hop line of a responding hop that prints its latency as a number
\* followed by a separate 'ms' yields a hop whose latency_ms is that number
\* rounded to two decimals.
C28_SeparateUnitParsed ==
    trpc = "done" =>
        \A i \in 1..Len(lines) :
            PrintedTime(lines[i], 3) # None =>
                \E j \in 1..Len(hops) :
                    /\ hops[j].hop = lines[i][1].val
                    /\ hops[j].latency_ms = Round2(PrintedTime(lines[i], 3))

\* The status of the tick before tick i; healthy before the first.
StatusBefore(i) == IF i = 1 THEN "healthy" ELSE tick_log[i - 1].status

\* C27: in run_monitoring the callback is invoked on a tick exactly when the
\* tick's status is not healthy and the status of the tick before it was
\* healthy; so never on two consecutive ticks, not on a change from degraded
\* to unhealthy, and again on the first non-healthy tick after a healthy one.
C27_CalledOnLeavingHealthy ==
    /\ \A i \in 1..Len(tick_log) :
          tick_log[i].called
             <=> (tick_log[i].status # "healthy" /\ StatusBefore(i) = "healthy")
    /\ \A i \in 2..Len(tick_log) : ~(tick_log[i - 1].called /\ tick_log[i].called)

\* Unhealthy, healthy again, then degraded: called, not called, called.
C27_Witness ==
    /\ Len(tick_log) = 3
    /\ tick_log[1].status = "unhealthy" /\ tick_log[1].called
    /\ tick_log[2].status = "healthy" /\ ~tick_log[2].called
    /\ tick_log[3].status = "degraded" /\ tick_log[3].called

Unresolved(parts) == \E k \in 1..Len(parts) : parts[k] = Incomplete

\* C21: every ARP line whose MAC is unresolved yields an entry with that
\* line's ip and mac None; the line is not dropped and no other field of
\* the line is taken for the mac.
C21_IncompleteHasNoMac ==
    apc = "done" =>
        /\ Len(arp_entries) = Len(arp_lines)
        /\ \A i \in 1..Len(arp_entries) :
              Unresolved(arp_lines[i]) =>
                  (arp_entries[i].ip = arp_lines[i][1] /\ arp_entries[i].mac = "None")

----------------------------------------------------------------------------
(* Properties of the ping probes *)

InPercentRange(loss) == 0 <= loss[1] /\ loss[1] <= 100 * loss[2]

\* C22: every result a ping probe returns has latency_ms null exactly when
\* success is false, and has a packet_loss within [0,100].
C22_LatencyNullIffFailed ==
    ppc = "done" =>
        /\ (ping_out.latency_ms = None) <=> ~ping_out.success
        /\ ping_out.has_packet_loss
        /\ InPercentRange(ping_out.packet_loss)

----------------------------------------------------------------------------
(* Properties of POST /api/diagnose *)

Unmeasured(has, value) == ~has \/ value = None

\* C23: in the alert handed to the diagnoser, a probe result with
\* success=false has no latency_ms, packet_loss or signal_dbm value.
C23_FailedProbeUnmeasured ==
    api_pc \notin {"idle", "monitor"} =>
        LET m == api_alert.metrics
        IN /\ ~m.ping.success =>
                /\ Unmeasured(m.ping.has_latency, m.ping.latency_ms)
                /\ Unmeasured(m.ping.has_packet_loss, m.ping.packet_loss)
           /\ ~m.signal.success => Unmeasured(m.signal.has_signal_dbm, m.signal.signal_dbm)

Responded == api_pc = "done"

\* What a finished request answered, stage by stage.
StructuredResponse ==
    /\ response.http = 200 /\ response.pipeline_complete
    /\ plan.monitor # "ok" => response.monitor.status = "offline"
    /\ plan.diagnostic = "raises" =>
          /\ response.diagnosis.primary_issue = "network_offline"
          /\ response.diagnosis.health_score = 0
          /\ ~generated
    /\ (generated /\ plan.solution = "raises") =>
          response.solutions.recommendations =
              SubSeq(api_diagnosis.recommendations, 1,
                     Min(TopSolutions, Len(api_diagnosis.recommendations)))
    /\ Len(response.solutions.recommendations) <= 7

\* C30: every request to /api/diagnose ends with a structured response,
\* whatever stages fail: an offline alert for a missing or failing monitor, a
\* network_offline diagnosis with score 0 and no call of the solution
\* generator for a failing diagnostic stage, the diagnosis's recommendations
\* for a failing solution stage, and at most 7 recommendations listed.
C30_AlwaysResponds == <>Responded /\ [](Responded => StructuredResponse)

C30_Witness ==
    /\ Responded
    /\ plan.monitor = "raises" /\ plan.diagnostic = "raises" /\ plan.solution = "raises"
    /\ response.solutions.total = 4

----------------------------------------------------------------------------
(* Properties of the health score *)

FallbackReturned == spc = "returned" /\ scorer = "_fallback_health_score"

RouterPenalty(in) ==
    IF in.router_latency > 100 THEN 30 ELSE IF in.router_latency > 50 THEN 15 ELSE 0
InternetPenalty(in) ==
    IF in.internet_latency > 200 THEN 20 ELSE IF in.internet_latency > 100 THEN 10 ELSE 0
SignalPenalty(in) ==
    IF in.signal_dbm < -80 THEN 25 ELSE IF in.signal_dbm < -70 THEN 10 ELSE 0
LossPenalty(in) == IF in.packet_loss > 5 THEN 20 ELSE 0
Penalties(in) == RouterPenalty(in) + InternetPenalty(in) + SignalPenalty(in) + LossPenalty(in)

\* C24: _fallback_health_score returns 100 minus the penalties triggered,
\* a score within [0,100], and 5 for router 120, internet 250, signal -85,
\* loss 10.
C24_HundredMinusPenalties ==
    FallbackReturned =>
        /\ score_out.score = 100 - Penalties(score_in)
        /\ score_out.score \in 0..100
        /\ score_in = ScoreInput(120, 250, -85, 10) => score_out.score = 5

C24_Witness ==
    /\ FallbackReturned
    /\ score_in = ScoreInput(120, 250, -85, 10)
    /\ score_out.score = 5

\* The explanation has one of these phrases.
Names(phrases) ==
    \E i \in 1..Len(score_out.explanation) : score_out.explanation[i] \in phrases

\* C25: the explanation of _fallback_health_score names every penalty that
\* was triggered, and is the 'performing well' text exactly when none was,
\* that is when the score is 100.
C25_EveryPenaltyNamed ==
    FallbackReturned =>
        /\ (score_out.explanation = <<"Network performing well">>)
              <=> (Penalties(score_in) = 0)
        /\ (Penalties(score_in) = 0) <=> (score_out.score = 100)
        /\ RouterPenalty(score_in) # 0 =>
              Names({"high router latency", "moderate router latency"})
        /\ InternetPenalty(score_in) # 0 =>
              Names({"high internet latency", "moderate internet latency"})
        /\ SignalPenalty(score_in) # 0 =>
              Names({"weak WiFi signal", "fair WiFi signal"})
        /\ LossPenalty(score_in) # 0 => Names({"packet loss"})

\* C26: when the collaborator is absent, raises or gives no parsable score,
\* the diagnosis analyze_with_rules returns has a network_health_score
\* within [0,100] equal to _fallback_health_score's for the same inputs.
C26_FallbackScoreAlways ==
    (/\ spc = "returned" /\ scorer = "analyze_with_rules"
     /\ \/ collaborator.kind \in {"absent", "raises"}
        \/ collaborator.number = None) =>
        /\ score_out.has_score
        /\ score_out.score \in 0..100
        /\ score_out.score = 100 - Penalties(score_in)

----------------------------------------------------------------------------
(* Properties of DirectDiagnosticAgent.analyze_results *)

\* One of the first five hops has a latency above 100 ms.
SlowEarlyHop ==
    \E i \in 1..Min(EarlyHops, Len(tool_set.hops)) :
        tool_set.hops[i] # None /\ tool_set.hops[i] > 100

\* C29: analyze_results returns a diagnosis for every tool result set, also
\* when some of the first five hops have latency_ms None; those hops are
\* not counted as an ISP delay.
C29_NoneHopsNotCounted ==
    /\ rpc # "raised"
    /\ rpc = "returned" => (direct.isp_delays_detected <=> SlowEarlyHop)

====
